---- MODULE Spec2Model ----
(***************************************************************************)
(* Euler Hunt: the progressive-refinement state machine (GameState) and    *)
(* the game screen that drives it.                                         *)
(*                                                                         *)
(* Scores (NCC) are integers in 0..MaxNcc, a fixed-point scale of the      *)
(* interval [-1,1] with the lowest score at 0; angles are integers in      *)
(* millidegrees (every psi step of the step table is a multiple of 1.875   *)
(* degrees); the clock performance.now() counts units of 3 seconds and the *)
(* fade half-life is an integer number of half-seconds.                    *)
(***************************************************************************)
EXTENDS Integers, Sequences, FiniteSets, TLC

VARIABLES gs, now, lastCall, threw, ui, calc

(***************************************************************************)
(* Bounds of the model                                                     *)
(***************************************************************************)
MaxNcc == 1
MaxTime == 2
MaxRecords == 2
MaxInputs == 1
MaxPsiStep == 1

NccValues == 0..MaxNcc

(***************************************************************************)
(* Optional values: null is the empty sequence, a value v is <<v>>         *)
(***************************************************************************)
Null == <<>>
Some(v) == <<v>>
IsNull(o) == o = <<>>
Val(o) == o[1]

(* The empty Map *)
EmptyMap == [k \in {} |-> 0]

MapSet(m, k, v) == [x \in (DOMAIN m) \cup {k} |-> IF x = k THEN v ELSE m[x]]

(***************************************************************************)
(* The number sentinels of nccMin / nccMax: +Infinity is above and         *)
(* -Infinity below every score                                             *)
(***************************************************************************)
PosInf == MaxNcc + 2
NegInf == -1

(***************************************************************************)
(* SUBDIVISION_STEPS: spacing in millidegrees, cutoff in 1/10000 Nyquist   *)
(***************************************************************************)
SUBDIVISION_STEPS ==
  << [angularSpacingDeg |-> 30000, lpCutoffNyquist |-> 625],
     [angularSpacingDeg |-> 15000, lpCutoffNyquist |-> 1250],
     [angularSpacingDeg |-> 7500,  lpCutoffNyquist |-> 2500],
     [angularSpacingDeg |-> 3750,  lpCutoffNyquist |-> 5000],
     [angularSpacingDeg |-> 1875,  lpCutoffNyquist |-> 10000] >>

NumSteps == Len(SUBDIVISION_STEPS)

(***************************************************************************)
(* Hex cells the callers pass in: hemisphere flag, axial coordinates and   *)
(* the viewing direction (rot, tilt) in millidegrees.  Two cells share the *)
(* prefix "T_1_2" of their keys.                                           *)
(***************************************************************************)
Cell(t, q, r, rot, tilt) == [isTop |-> t, q |-> q, r |-> r, rot |-> rot, tilt |-> tilt]

Cells ==
  { Cell(TRUE, 1, 2, 70893, 7905),
    Cell(TRUE, 1, 25, 88055, 83319) }

PsiValues == {0, 5625}

(***************************************************************************)
(* Template-literal formatting of numbers, as sequences of characters      *)
(***************************************************************************)
DigitChars == <<"0", "1", "2", "3", "4", "5", "6", "7", "8", "9">>

RECURSIVE NatStr(_)
NatStr(n) == IF n < 10 THEN <<DigitChars[n + 1]>>
             ELSE Append(NatStr(n \div 10), DigitChars[(n % 10) + 1])

IntStr(n) == IF n < 0 THEN <<"-">> \o NatStr(-n) ELSE NatStr(n)

(* the decimals of a millidegree fraction 0..999 without trailing zeros *)
FracStr(f) ==
  IF f % 100 = 0 THEN <<DigitChars[(f \div 100) + 1]>>
  ELSE IF f % 10 = 0 THEN <<DigitChars[(f \div 100) + 1], DigitChars[((f \div 10) % 10) + 1]>>
  ELSE <<DigitChars[(f \div 100) + 1], DigitChars[((f \div 10) % 10) + 1], DigitChars[(f % 10) + 1]>>

(* String(psiDeg) of a number of degrees held in millidegrees *)
DegStr(m) ==
  LET a == IF m < 0 THEN -m ELSE m
      body == IF a % 1000 = 0 THEN NatStr(a \div 1000)
              ELSE NatStr(a \div 1000) \o <<".">> \o FracStr(a % 1000)
  IN IF m < 0 THEN <<"-">> \o body ELSE body

startsWith(s, prefix) ==
  /\ Len(s) >= Len(prefix)
  /\ SubSeq(s, 1, Len(prefix)) = prefix

(* `${cell.isTop ? 'T' : 'B'}_${cell.q}_${cell.r}` *)
cellKey(cell) ==
  <<IF cell.isTop THEN "T" ELSE "B">> \o <<"_">> \o IntStr(cell.q) \o <<"_">> \o IntStr(cell.r)

(* `${cellKey(cell)}_${psiDeg}` *)
psiKey(cell, psiDeg) == cellKey(cell) \o <<"_">> \o DegStr(psiDeg)

(***************************************************************************)
(* GameState                                                               *)
(***************************************************************************)
NewGameState(targetRot, targetTilt, targetPsiDeg, fadeHalfLife) ==
  [ targetRot |-> targetRot,
    targetTilt |-> targetTilt,
    targetPsiDeg |-> targetPsiDeg,
    subdivisionIndex |-> 0,
    currentCell |-> Null,
    currentPsiDeg |-> 0,
    explored |-> EmptyMap,
    bestPerCell |-> EmptyMap,
    nccMin |-> PosInf,
    nccMax |-> NegInf,
    fadeHalfLife |-> fadeHalfLife,
    exploredAt |-> EmptyMap,
    cellExploredAt |-> EmptyMap ]

currentStepOffByOne(s) == SUBDIVISION_STEPS[IF s.subdivisionIndex = 0 THEN 1 ELSE s.subdivisionIndex]

(* the index is 0-based in the source, the tuple 1-based *)
currentStep(s) == SUBDIVISION_STEPS[s.subdivisionIndex + 1]

canSubdivide(s) == s.subdivisionIndex < NumSteps - 1

(* Math.round(360 / spacing) *)
psiSteps(s) == (2 * 360000 + currentStep(s).angularSpacingDeg) \div (2 * currentStep(s).angularSpacingDeg)

psiIncrement(s) == 360000 \div psiSteps(s)

subdivideNoClearBest(s) ==
  IF ~canSubdivide(s)
  THEN [threw |-> TRUE, state |-> s]
  ELSE [threw |-> FALSE,
        state |-> [s EXCEPT !.subdivisionIndex = @ + 1,
                            !.explored = EmptyMap,
                            !.exploredAt = EmptyMap,
                            !.cellExploredAt = EmptyMap,
                            !.nccMin = PosInf,
                            !.nccMax = NegInf]]

subdivideUnguarded(s) ==
  [threw |-> FALSE,
   state |-> [s EXCEPT !.subdivisionIndex = IF canSubdivide(s) THEN @ + 1 ELSE @,
                       !.explored = EmptyMap,
                       !.bestPerCell = EmptyMap,
                       !.exploredAt = EmptyMap,
                       !.cellExploredAt = EmptyMap,
                       !.nccMin = PosInf,
                       !.nccMax = NegInf]]

subdivideWraps(s) ==
  IF ~canSubdivide(s)
  THEN [threw |-> FALSE, state |-> NewGameState(s.targetRot, s.targetTilt, s.targetPsiDeg, s.fadeHalfLife)]
  ELSE [threw |-> FALSE,
        state |-> [s EXCEPT !.subdivisionIndex = @ + 1,
                            !.explored = EmptyMap,
                            !.bestPerCell = EmptyMap,
                            !.exploredAt = EmptyMap,
                            !.cellExploredAt = EmptyMap,
                            !.nccMin = PosInf,
                            !.nccMax = NegInf]]

(* subdivide(): the result is the state after the call and whether it threw *)
subdivide(s) ==
  IF ~canSubdivide(s)
  THEN [threw |-> TRUE, state |-> s]
  ELSE [threw |-> FALSE,
        state |-> [s EXCEPT !.subdivisionIndex = @ + 1,
                            !.explored = EmptyMap,
                            !.bestPerCell = EmptyMap,
                            !.exploredAt = EmptyMap,
                            !.cellExploredAt = EmptyMap,
                            !.nccMin = PosInf,
                            !.nccMax = NegInf]]

exploreEntry(cell, psiDeg, ncc) ==
  [ncc |-> ncc, rot |-> cell.rot, tilt |-> cell.tilt, psiDeg |-> psiDeg]

exploreReplacesAll(s, cell, psiDeg, ncc, t) ==
  LET key == psiKey(cell, psiDeg)
      ck == cellKey(cell)
  IN [s EXCEPT
        !.explored = MapSet(EmptyMap, key, exploreEntry(cell, psiDeg, ncc)),
        !.exploredAt = MapSet(s.exploredAt, key, t),
        !.cellExploredAt = MapSet(s.cellExploredAt, ck, t),
        !.bestPerCell = IF ck \notin DOMAIN s.bestPerCell \/ ncc > s.bestPerCell[ck]
                        THEN MapSet(s.bestPerCell, ck, ncc) ELSE s.bestPerCell,
        !.nccMin = IF ncc < s.nccMin THEN ncc ELSE s.nccMin,
        !.nccMax = IF ncc > s.nccMax THEN ncc ELSE s.nccMax]

(* explore(cell, psiDeg, ncc) at clock reading t *)
explore(s, cell, psiDeg, ncc, t) ==
  LET key == psiKey(cell, psiDeg)
      ck == cellKey(cell)
  IN [s EXCEPT
        !.explored = MapSet(s.explored, key, exploreEntry(cell, psiDeg, ncc)),
        !.exploredAt = MapSet(s.exploredAt, key, t),
        !.cellExploredAt = MapSet(s.cellExploredAt, ck, t),
        !.bestPerCell = IF ck \notin DOMAIN s.bestPerCell \/ ncc > s.bestPerCell[ck]
                        THEN MapSet(s.bestPerCell, ck, ncc) ELSE s.bestPerCell,
        !.nccMin = IF ncc < s.nccMin THEN ncc ELSE s.nccMin,
        !.nccMax = IF ncc > s.nccMax THEN ncc ELSE s.nccMax]

(* getBestNccForCell: the score or null *)
getBestNccForCell(s, cell) ==
  IF cellKey(cell) \in DOMAIN s.bestPerCell THEN Some(s.bestPerCell[cellKey(cell)]) ELSE Null

getPsiNccValuesNoSeparator(s, cell) ==
  LET prefix == cellKey(cell)
      hits == {k \in DOMAIN s.explored : startsWith(k, prefix)}
  IN [p \in {s.explored[k].psiDeg : k \in hits} |->
        LET k == CHOOSE x \in hits : s.explored[x].psiDeg = p IN s.explored[k].ncc]

(* getPsiNccValues: the map psiDeg -> ncc of the keys that start with the cell's key and '_' *)
getPsiNccValues(s, cell) ==
  LET prefix == cellKey(cell) \o <<"_">>
      hits == {k \in DOMAIN s.explored : startsWith(k, prefix)}
  IN [p \in {s.explored[k].psiDeg : k \in hits} |->
        LET k == CHOOSE x \in hits : s.explored[x].psiDeg = p IN s.explored[k].ncc]

hasExplored(s) == Cardinality(DOMAIN s.explored) > 0

(* Math.pow(0.5, elapsed / halfLife) < 0.05, that is 2^(elapsed/halfLife) > 20: *)
(* with elapsed in units of 3 s and halfLife h in half-seconds, 2^(6*elapsed/h) *)
(* > 20, that is 64^elapsed > 20^h                                              *)
FadedBelowThreshold(elapsed, h) == 64 ^ elapsed > 20 ^ h

SetMin(S, dflt) == IF S = {} THEN dflt ELSE CHOOSE x \in S : \A y \in S : x <= y
SetMax(S, dflt) == IF S = {} THEN dflt ELSE CHOOSE x \in S : \A y \in S : x >= y

refreshFadeRangeKeepsAll(s, t) ==
  IF IsNull(s.fadeHalfLife) THEN s
  ELSE [s EXCEPT !.nccMin = SetMin({s.explored[k].ncc : k \in DOMAIN s.explored}, PosInf),
                 !.nccMax = SetMax({s.explored[k].ncc : k \in DOMAIN s.explored}, NegInf)]

(* refreshFadeRange() at clock reading t *)
refreshFadeRange(s, t) ==
  IF IsNull(s.fadeHalfLife) THEN s
  ELSE LET kept == {k \in DOMAIN s.explored :
                      ~(k \in DOMAIN s.exploredAt
                        /\ FadedBelowThreshold(t - s.exploredAt[k], Val(s.fadeHalfLife)))}
           scores == {s.explored[k].ncc : k \in kept}
       IN [s EXCEPT !.nccMin = SetMin(scores, PosInf),
                    !.nccMax = SetMax(scores, NegInf)]

(***************************************************************************)
(* Images: a projection of an orientation and the operations applied to    *)
(* it since; buffers live in a heap and are passed by reference            *)
(***************************************************************************)
Op(name, arg) == [op |-> name, arg |-> arg]

(* renderer.renderProjection: a fresh image of the orientation *)
renderProjection(rot, tilt, psiDeg) ==
  [rot |-> rot, tilt |-> tilt, psiDeg |-> psiDeg, ops |-> <<>>]

Filtered(img, op) == [img EXCEPT !.ops = Append(@, op)]

(* the buffers the screen allocates *)
BufTargetClean == 1
BufCtf == 2
BufNoise == 3
BufDisplay == 4
BufRaw == 5
BufPlayer == 6

Ref(h, r) == [heap |-> h, ref |-> r]

LpNone == 10000

applyLowPassInPlace(h, src, cutoffNyquist, dst) ==
  IF cutoffNyquist >= LpNone THEN Ref(h, src)
  ELSE Ref(MapSet(h, src, Filtered(h[src], Op("lp", cutoffNyquist))), src)

(* applyLowPass: the input itself at cutoff >= 1.0, a new buffer otherwise *)
applyLowPass(h, src, cutoffNyquist, dst) ==
  IF cutoffNyquist >= LpNone THEN Ref(h, src)
  ELSE Ref(MapSet(h, dst, Filtered(h[src], Op("lp", cutoffNyquist))), dst)

(* applyCtf: always a new buffer *)
applyCtf(h, src, defocus, dst) ==
  Ref(MapSet(h, dst, Filtered(h[src], Op("ctf", defocus))), dst)

(* applyCtfAndLowPass: always a new buffer; the low-pass factor is 1 at cutoff >= 1.0 *)
applyCtfAndLowPass(h, src, defocus, cutoffNyquist, dst) ==
  LET c == Filtered(h[src], Op("ctf", defocus))
  IN Ref(MapSet(h, dst, IF cutoffNyquist >= LpNone THEN c
                        ELSE Filtered(c, Op("lp", cutoffNyquist))), dst)

(* addNoise: always a new buffer *)
addNoise(h, src, snr, dst) ==
  Ref(MapSet(h, dst, Filtered(h[src], Op("noise", snr))), dst)

(* buffers no variable refers to any more are gone *)
Collect(h, roots) == [b \in (DOMAIN h) \cap roots |-> h[b]]

(***************************************************************************)
(* The hex grids of the two discs at each step, top disc first: a few of   *)
(* the cells createHexGrid returns, with their direction cosines (x1000).  *)
(* The centre of cell (q, r) is the centre of cell (2q, 2r) of the next    *)
(* step; the border cell (6, 2) of step 3 has no such cell at step 4,      *)
(* where the nearest cell is (11, 4).  Every step's table holds the cell   *)
(* nearest to each cell of the step before.                                *)
(***************************************************************************)
GridCell(t, q, r, rot, tilt, x, y, z) ==
  [cell |-> Cell(t, q, r, rot, tilt), dir |-> <<x, y, z>>]

GridTable ==
  << << GridCell(TRUE, 0, 0, 0, 0, 0, 0, 1000),
        GridCell(TRUE, 1, 0, 30000, 49269, 656, 379, 653) >>,
     << GridCell(TRUE, 0, 0, 0, 0, 0, 0, 1000),
        GridCell(TRUE, 2, 0, 30000, 49269, 656, 379, 653) >>,
     << GridCell(TRUE, 0, 0, 0, 0, 0, 0, 1000),
        GridCell(TRUE, 4, 0, 30000, 49269, 656, 379, 653),
        GridCell(TRUE, 6, 2, 43898, 90000, 721, 693, 0) >>,
     << GridCell(TRUE, 0, 0, 0, 0, 0, 0, 1000),
        GridCell(TRUE, 8, 0, 30000, 49269, 656, 379, 653),
        GridCell(TRUE, 11, 4, 44921, 89012, 708, 706, 17) >>,
     << GridCell(TRUE, 0, 0, 0, 0, 0, 0, 1000),
        GridCell(TRUE, 16, 0, 30000, 49269, 656, 379, 653),
        GridCell(TRUE, 22, 8, 44921, 89012, 708, 706, 17) >> >>

(* [...topDisc.grid, ...bottomDisc.grid] at step index i *)
Grid(i) == [k \in 1..Len(GridTable[i + 1]) |-> GridTable[i + 1][k].cell]

AllGridCells == UNION {{GridTable[i][k] : k \in 1..Len(GridTable[i])} : i \in 1..Len(GridTable)}

Direction(rot, tilt) == (CHOOSE g \in AllGridCells : g.cell.rot = rot /\ g.cell.tilt = tilt).dir

(* cos of the great-circle distance (x 10^6), clamped as before Math.acos *)
cosDist(rot1, tilt1, rot2, tilt2) ==
  LET a == Direction(rot1, tilt1)
      b == Direction(rot2, tilt2)
      d == a[1] * b[1] + a[2] * b[2] + a[3] * b[3]
  IN IF d > 1000000 THEN 1000000 ELSE IF d < -1000000 THEN -1000000 ELSE d

(* the cell of the coarsest grid in the same direction: no snapping to the new grid *)
snapToCoarsestCell(rot, tilt, grid) ==
  LET same == {g \in AllGridCells : g.cell.rot = rot /\ g.cell.tilt = tilt}
  IN (CHOOSE g \in same : \A h \in same : g.cell.q <= h.cell.q).cell

(* snapToNearestCell: the first cell of the grid at the smallest distance *)
snapToNearestCell(rot, tilt, grid) ==
  LET k == CHOOSE i \in 1..Len(grid) :
             /\ \A j \in 1..Len(grid) :
                  cosDist(rot, tilt, grid[i].rot, grid[i].tilt) >= cosDist(rot, tilt, grid[j].rot, grid[j].tilt)
             /\ \A j \in 1..(i - 1) :
                  cosDist(rot, tilt, grid[j].rot, grid[j].tilt) < cosDist(rot, tilt, grid[i].rot, grid[i].tilt)
  IN grid[k]

(* the remainder operator % of the source: the sign of the dividend *)
JsRem(a, n) == IF a >= 0 THEN a % n ELSE -((-a) % n)

(* psiDeg % 360, without the rounding to a step *)
snapPsiNoRound(psiDeg, inc) == JsRem(psiDeg, 360000)

(* Math.round(psiDeg / psiIncrement) * psiIncrement % 360 *)
snapPsi(psiDeg, inc) == JsRem(((2 * psiDeg + inc) \div (2 * inc)) * inc, 360000)

(***************************************************************************)
(* The game screen: the closure variables of createGameScreen, the two     *)
(* buttons, the canvases and the browser's animation-frame queue           *)
(***************************************************************************)
LevelConfig(defocus, snr, fadeHalfLife) ==
  [defocus |-> defocus, snr |-> snr, fadeHalfLife |-> fadeHalfLife]

(* Apoferritin and TRPV3: defocus in 0.1 um, snr in 0.1, half-life in 0.5 s *)
campaignLevels ==
  { LevelConfig(Null, Null, Null),
    LevelConfig(Some(10), Some(1), Some(2)) }

TargetChoices ==
  { [rot |-> 30000, tilt |-> 49269, psiDeg |-> 0] }

NoScreen ==
  [ screen |-> "none",
    level |-> LevelConfig(Null, Null, Null),
    heap |-> EmptyMap,
    targetClean |-> 0,
    targetWithEffects |-> 0,
    currentTargetDisplayed |-> 0,
    widgetStep |-> -1,
    continuousPsi |-> 0,
    projectionRafId |-> 0,
    fadeRafId |-> 0,
    subdivideBtnDisabled |-> FALSE,
    submitBtnDisabled |-> FALSE,
    rafQueue |-> <<>>,
    targetCanvas |-> Null,
    playerCanvas |-> Null,
    nccInputs |-> Null,
    result |-> Null,
    inputs |-> 0,
    pendingRequests |-> 0,
    servedRequests |-> 0 ]

(* createGameScreen up to the construction of the GameState: the clean   *)
(* target projection and the target with CTF and noise                   *)
TargetImages(level, target) ==
  LET h0 == MapSet(EmptyMap, BufTargetClean, renderProjection(target.rot, target.tilt, target.psiDeg))
      r1 == IF ~IsNull(level.defocus) THEN applyCtf(h0, BufTargetClean, Val(level.defocus), BufCtf)
            ELSE Ref(h0, BufTargetClean)
      r2 == IF ~IsNull(level.snr) THEN addNoise(r1.heap, r1.ref, Val(level.snr), BufNoise)
            ELSE r1
  IN [NoScreen EXCEPT !.screen = "loading",
                      !.level = level,
                      !.heap = Collect(r2.heap, {BufTargetClean, r2.ref}),
                      !.targetClean = BufTargetClean,
                      !.targetWithEffects = r2.ref]

Roots(u) == {u.targetClean, u.targetWithEffects, u.currentTargetDisplayed}

(* requestAnimationFrame hands out a handle no pending callback and no variable holds *)
NewHandle(u) ==
  CHOOSE i \in 1..(Len(u.rafQueue) + 3) :
    /\ i \notin {u.rafQueue[k].id : k \in 1..Len(u.rafQueue)} \cup {u.projectionRafId, u.fadeRafId}
    /\ \A j \in 1..(i - 1) :
         j \in {u.rafQueue[k].id : k \in 1..Len(u.rafQueue)} \cup {u.projectionRafId, u.fadeRafId}

requestAnimationFrame(u, kind) ==
  [u EXCEPT !.rafQueue = Append(@, [id |-> NewHandle(u), kind |-> kind])]

cancelAnimationFrame(u, id) ==
  [u EXCEPT !.rafQueue = SelectSeq(@, LAMBDA c : c.id # id)]

updateTargetDisplayOnce(g, u) ==
  IF u.currentTargetDisplayed # 0 THEN u
  ELSE LET r == applyLowPass(u.heap, u.targetWithEffects, currentStep(g).lpCutoffNyquist, BufDisplay)
           u1 == [u EXCEPT !.currentTargetDisplayed = r.ref]
       IN [u1 EXCEPT !.heap = Collect(r.heap, Roots(u1)),
                     !.targetCanvas = Some(r.heap[r.ref])]

(* updateTargetDisplay: the target with effects, low-pass filtered at the current step's cutoff *)
updateTargetDisplay(g, u) ==
  LET r == applyLowPass(u.heap, u.targetWithEffects, currentStep(g).lpCutoffNyquist, BufDisplay)
      u1 == [u EXCEPT !.currentTargetDisplayed = r.ref]
  IN [u1 EXCEPT !.heap = Collect(r.heap, Roots(u1)),
                !.targetCanvas = Some(r.heap[r.ref])]

updateSubdivisionUINoSubmitToggle(g, u) ==
  [u EXCEPT !.subdivideBtnDisabled = ~canSubdivide(g)]

updateSubdivisionUI(g, u) ==
  [u EXCEPT !.subdivideBtnDisabled = ~canSubdivide(g),
            !.submitBtnDisabled = canSubdivide(g)]

scheduleProjectionUpdateUnguarded(u) ==
  [requestAnimationFrame(u, "projection") EXCEPT
     !.projectionRafId = NewHandle(u),
     !.pendingRequests = @ + 1,
     !.servedRequests = 0]

(* scheduleProjectionUpdate: nothing when a callback is pending *)
scheduleProjectionUpdate(u) ==
  IF u.projectionRafId # 0 THEN [u EXCEPT !.pendingRequests = @ + 1, !.servedRequests = 0]
  ELSE [requestAnimationFrame(u, "projection") EXCEPT
          !.projectionRafId = NewHandle(u),
          !.pendingRequests = @ + 1,
          !.servedRequests = 0]

GU(g, u) == [g |-> g, u |-> u]

(* ((x % 360) + 360) % 360 *)
Wrap360(x) == JsRem(JsRem(x, 360000) + 360000, 360000)

selectCell(g, u, cell) ==
  LET has == ~IsNull(g.currentCell)
      cp == IF has THEN Wrap360(u.continuousPsi - (cell.rot - Val(g.currentCell).rot))
            ELSE u.continuousPsi
      g1 == [g EXCEPT !.currentPsiDeg = IF has THEN snapPsi(cp, psiIncrement(g)) ELSE @,
                      !.currentCell = Some(cell)]
  IN GU(g1, scheduleProjectionUpdate([u EXCEPT !.continuousPsi = cp]))

selectPsi(g, u, psiDeg) ==
  GU([g EXCEPT !.currentPsiDeg = psiDeg],
     scheduleProjectionUpdate([u EXCEPT !.continuousPsi = psiDeg]))

(* ncc(a, b): a fixed function of the two images; which one depends on the *)
(* volume, and these values stand for one volume                           *)
ncc(a, b) ==
  LET n == (b.rot \div 1000) + (b.psiDeg \div 1875) + Len(a.ops) + 2 * Len(b.ops)
  IN IF a.rot = b.rot /\ a.tilt = b.tilt /\ a.psiDeg = b.psiDeg THEN MaxNcc
     ELSE n % (MaxNcc + 1)

(* updateProjection at clock reading t *)
updateProjection(g, u, t) ==
  IF IsNull(g.currentCell) THEN GU(g, u)
  ELSE LET cur == Val(g.currentCell)
           lpCutoff == currentStep(g).lpCutoffNyquist
           h1 == MapSet(u.heap, BufRaw, renderProjection(cur.rot, cur.tilt, g.currentPsiDeg))
           r == IF ~IsNull(u.level.defocus)
                THEN applyCtfAndLowPass(h1, BufRaw, Val(u.level.defocus), lpCutoff, BufPlayer)
                ELSE applyLowPass(h1, BufRaw, lpCutoff, BufPlayer)
           playerImage == r.heap[r.ref]
           nccValue == ncc(r.heap[u.currentTargetDisplayed], playerImage)
       IN GU(explore(g, cur, g.currentPsiDeg, nccValue, t),
             [u EXCEPT !.heap = Collect(r.heap, Roots(u)),
                       !.playerCanvas = Some(playerImage),
                       !.nccInputs = Some([target |-> r.heap[u.currentTargetDisplayed],
                                           player |-> playerImage])])

(* fadeLoop at clock reading t *)
fadeLoop(g, u, t) ==
  GU(refreshFadeRange(g, t),
     [requestAnimationFrame(u, "fade") EXCEPT !.fadeRafId = NewHandle(u)])

stopFadeLoop(u) ==
  IF u.fadeRafId # 0 THEN [cancelAnimationFrame(u, u.fadeRafId) EXCEPT !.fadeRafId = 0]
  ELSE u

(* the two images computeScore is given on Submit *)
SubmitScore(targetProjection, playerProjection) ==
  [targetProjection |-> targetProjection, playerProjection |-> playerProjection]

(* no core computation is in progress *)
NoCalc == [fn |-> "none"]

(***************************************************************************)
(* The GameState driven by an arbitrary caller                             *)
(***************************************************************************)
FadeChoices == {Null, Some(2)}

Call(op, cell, psiDeg, nccValue) == [op |-> op, cell |-> cell, psiDeg |-> psiDeg, ncc |-> nccValue]

Init ==
  /\ \E f \in FadeChoices : gs = NewGameState(30000, 60000, 45000, f)
  /\ now = 0
  /\ lastCall = Call("new", Null, 0, 0)
  /\ threw = FALSE
  /\ ui = NoScreen
  /\ calc = NoCalc

Explore ==
  \E cell \in Cells, psiDeg \in PsiValues, nccValue \in NccValues :
    /\ \/ psiKey(cell, psiDeg) \in DOMAIN gs.explored
       \/ Cardinality(DOMAIN gs.explored) < MaxRecords
    /\ gs' = explore(gs, cell, psiDeg, nccValue, now)
    /\ lastCall' = Call("explore", Some(cell), psiDeg, nccValue)
    /\ threw' = FALSE
    /\ UNCHANGED <<now, ui, calc>>

Subdivide ==
  /\ gs' = subdivide(gs).state
  /\ threw' = subdivide(gs).threw
  /\ lastCall' = Call("subdivide", Null, 0, 0)
  /\ UNCHANGED <<now, ui, calc>>

RefreshFadeRange ==
  /\ gs' = refreshFadeRange(gs, now)
  /\ lastCall' = Call("refreshFadeRange", Null, 0, 0)
  /\ threw' = FALSE
  /\ UNCHANGED <<now, ui, calc>>

Tick ==
  \E d \in 1..MaxTime :
    /\ now + d <= MaxTime
    /\ now' = now + d
    /\ lastCall' = Call("tick", Null, 0, 0)
    /\ UNCHANGED <<gs, threw, ui, calc>>

Next == Explore \/ Subdivide \/ RefreshFadeRange \/ Tick

vars == <<gs, now, lastCall, threw, ui, calc>>

Spec == Init /\ [][Next]_vars

(***************************************************************************)
(* The game screen driven by the player and the browser                    *)
(***************************************************************************)
InitUI ==
  /\ \E level \in campaignLevels, target \in TargetChoices :
       /\ gs = NewGameState(target.rot, target.tilt, target.psiDeg, level.fadeHalfLife)
       /\ ui = TargetImages(level, target)
  /\ now = 0
  /\ lastCall = Call("new", Null, 0, 0)
  /\ threw = FALSE
  /\ calc = NoCalc

(* allAsuCells.reduce((best, c) => (c.tilt < best.tilt ? c : best), allAsuCells[0]) *)
InitialCell(grid) ==
  grid[CHOOSE i \in 1..Len(grid) :
         /\ \A j \in 1..Len(grid) : grid[i].tilt <= grid[j].tilt
         /\ \A j \in 1..(i - 1) : grid[j].tilt > grid[i].tilt]

(* createGameScreen from the creation of the widgets to its end *)
Setup ==
  /\ ui.screen = "loading"
  /\ LET u0 == [ui EXCEPT !.widgetStep = gs.subdivisionIndex]
         a == selectCell(gs, u0, InitialCell(Grid(gs.subdivisionIndex)))
         u1 == updateTargetDisplay(a.g, a.u)
         u2 == updateSubdivisionUI(a.g, u1)
         u3 == [u2 EXCEPT !.screen = "game"]
         b == IF ~IsNull(ui.level.fadeHalfLife) THEN fadeLoop(a.g, u3, now) ELSE GU(a.g, u3)
     IN /\ gs' = b.g
        /\ ui' = b.u
  /\ lastCall' = Call("setup", Null, 0, 0)
  /\ UNCHANGED <<now, threw, calc>>

SameCell(c, d) == c.q = d.q /\ c.r = d.r /\ c.isTop = d.isTop

(* a pointer event on a disc that hits a cell other than the current one *)
DiscSelect ==
  /\ ui.screen = "game"
  /\ ui.inputs < MaxInputs
  /\ \E k \in 1..Len(Grid(ui.widgetStep)) :
       LET cell == Grid(ui.widgetStep)[k]
           a == selectCell(gs, ui, cell)
       IN /\ IsNull(gs.currentCell) \/ ~SameCell(Val(gs.currentCell), cell)
          /\ gs' = a.g
          /\ ui' = [a.u EXCEPT !.inputs = @ + 1]
          /\ lastCall' = Call("selectCell", Null, 0, 0)
  /\ UNCHANGED <<now, threw, calc>>

(* eventToPsi for a pointer on the ring at the angle angleDeg in [0, 360):    *)
(* Math.round((angle * 180) / Math.PI / psiIncrement) * psiIncrement % 360 *)
eventToPsi(angleDeg, inc) == JsRem(((2 * angleDeg + inc) \div (2 * inc)) * inc, 360000)

(* where inside a ring segment the pointer is, in millidegrees after the   *)
(* segment's own angle                                                     *)
PointerOffsets == {700}

(* a pointer event on the psi ring that hits a step other than the current one *)
PsiSelect ==
  /\ ui.screen = "game"
  /\ ui.inputs < MaxInputs
  /\ \E k \in 0..MaxPsiStep, off \in PointerOffsets :
       LET psiDeg == eventToPsi(k * psiIncrement(gs) + off, psiIncrement(gs))
           a == selectPsi(gs, ui, psiDeg)
       IN /\ psiDeg # gs.currentPsiDeg
          /\ gs' = a.g
          /\ ui' = [a.u EXCEPT !.inputs = @ + 1]
          /\ lastCall' = Call("selectPsi", Null, 0, 0)
  /\ UNCHANGED <<now, threw, calc>>

(* the click handler of the Subdivide button; a disabled button gets no click *)
SubdivideClick ==
  /\ ui.screen = "game"
  /\ ~ui.subdivideBtnDisabled
  /\ lastCall' = Call("subdivideClick", Null, 0, 0)
  /\ IF ~canSubdivide(gs)
     THEN UNCHANGED <<gs, ui, threw>>
     ELSE LET r == subdivide(gs)
              g1 == r.state
              u1 == [ui EXCEPT !.widgetStep = g1.subdivisionIndex]
              g2 == IF IsNull(g1.currentCell) THEN g1
                    ELSE [g1 EXCEPT
                            !.currentCell = Some(snapToNearestCell(Val(g1.currentCell).rot,
                                                                   Val(g1.currentCell).tilt,
                                                                   Grid(g1.subdivisionIndex))),
                            !.currentPsiDeg = snapPsi(ui.continuousPsi, psiIncrement(g1))]
              u2 == updateTargetDisplay(g2, u1)
              u3 == updateSubdivisionUI(g2, u2)
              u4 == scheduleProjectionUpdate(u3)
          IN IF r.threw
             THEN /\ gs' = r.state
                  /\ threw' = TRUE
                  /\ UNCHANGED ui
             ELSE /\ gs' = g2
                  /\ ui' = [u4 EXCEPT !.inputs = 0]
                  /\ threw' = FALSE
  /\ UNCHANGED <<now, calc>>

(* the click handler of the Submit button *)
SubmitClick ==
  /\ ui.screen = "game"
  /\ ~ui.submitBtnDisabled
  /\ lastCall' = Call("submitClick", Null, 0, 0)
  /\ IF IsNull(gs.currentCell)
     THEN UNCHANGED ui
     ELSE LET cur == Val(gs.currentCell)
              playerClean == renderProjection(cur.rot, cur.tilt, gs.currentPsiDeg)
              u1 == [ui EXCEPT !.result = Some(SubmitScore(ui.heap[ui.targetClean], playerClean))]
          IN ui' = [stopFadeLoop(u1) EXCEPT !.screen = "score"]
  /\ UNCHANGED <<gs, now, threw, calc>>

(* the click handler of the two Menu buttons *)
BackClick ==
  /\ ui.screen = "game"
  /\ ui' = [stopFadeLoop(ui) EXCEPT !.screen = "title"]
  /\ lastCall' = Call("backClick", Null, 0, 0)
  /\ UNCHANGED <<gs, now, threw, calc>>

(* the callback without its first statement projectionRafId = 0 *)
ProjectionFrameKeepsRafId ==
  /\ Len(ui.rafQueue) > 0
  /\ Head(ui.rafQueue).kind = "projection"
  /\ LET u1 == [ui EXCEPT !.rafQueue = Tail(@),
                          !.pendingRequests = 0,
                          !.servedRequests = ui.pendingRequests]
         a == updateProjection(gs, u1, now)
     IN /\ gs' = a.g
        /\ ui' = a.u
  /\ lastCall' = Call("projectionFrame", Null, 0, 0)
  /\ UNCHANGED <<now, threw, calc>>

(* the browser runs the oldest pending callback: the one of scheduleProjectionUpdate *)
ProjectionFrame ==
  /\ Len(ui.rafQueue) > 0
  /\ Head(ui.rafQueue).kind = "projection"
  /\ LET u1 == [ui EXCEPT !.rafQueue = Tail(@),
                          !.projectionRafId = 0,
                          !.pendingRequests = 0,
                          !.servedRequests = ui.pendingRequests]
         a == updateProjection(gs, u1, now)
     IN /\ gs' = a.g
        /\ ui' = a.u
  /\ lastCall' = Call("projectionFrame", Null, 0, 0)
  /\ UNCHANGED <<now, threw, calc>>

(* the browser runs the oldest pending callback: fadeLoop, which runs in   *)
(* every frame; the clock has advanced since the frame before             *)
FadeFrame ==
  /\ Len(ui.rafQueue) > 0
  /\ Head(ui.rafQueue).kind = "fade"
  /\ \E t \in now..MaxTime :
       LET a == fadeLoop(gs, [ui EXCEPT !.rafQueue = Tail(@)], t)
       IN /\ gs' = a.g
          /\ ui' = a.u
          /\ now' = t
  /\ lastCall' = Call("fadeFrame", Null, 0, 0)
  /\ UNCHANGED <<threw, calc>>

NextUI ==
  \/ Setup
  \/ DiscSelect
  \/ PsiSelect
  \/ SubdivideClick
  \/ SubmitClick
  \/ BackClick
  \/ ProjectionFrame
  \/ FadeFrame

SpecUI == InitUI /\ [][NextUI]_vars

(***************************************************************************)
(* Properties                                                              *)
(***************************************************************************)
(* every cell a caller can name *)
AllCells == Cells \cup {g.cell : g \in AllGridCells}

(* the records stored for a cell of the current grid, told by the direction they *)
(* carry, not by their key                                                       *)
RecordsOf(s, cell) ==
  {s.explored[k] : k \in {x \in DOMAIN s.explored :
                            s.explored[x].rot = cell.rot /\ s.explored[x].tilt = cell.tilt}}

AllScores(s) == {s.explored[k].ncc : k \in DOMAIN s.explored}

SuccessfulSubdivide == lastCall.op = "subdivide" /\ ~threw

(* C1: after every successful subdivide() nothing is explored: hasExplored is    *)
(* false, nccMin/nccMax are the +Infinity/-Infinity sentinel, and for every cell *)
(* getBestNccForCell is null and getPsiNccValues is the empty map                *)
C1_SubdivideResets ==
  SuccessfulSubdivide =>
    /\ ~hasExplored(gs)
    /\ gs.nccMin = PosInf
    /\ gs.nccMax = NegInf
    /\ \A c \in AllCells :
         /\ IsNull(getBestNccForCell(gs, c))
         /\ DOMAIN getPsiNccValues(gs, c) = {}

C1_Witness ==
  /\ SuccessfulSubdivide
  /\ gs.subdivisionIndex = 2
  /\ now > 0

(* C2: the subdivision index starts at 0, stays within 0..N-1, grows by exactly 1 *)
(* in every successful subdivide() and is left alone by every other call          *)
C2_IndexForwardOnly ==
  /\ gs.subdivisionIndex = 0
  /\ [](gs.subdivisionIndex \in 0..(NumSteps - 1))
  /\ [][IF lastCall'.op = "subdivide" /\ ~threw'
        THEN gs'.subdivisionIndex = gs.subdivisionIndex + 1
        ELSE gs'.subdivisionIndex = gs.subdivisionIndex]_vars

C2_Witness ==
  /\ gs.subdivisionIndex = NumSteps - 1
  /\ lastCall.op = "explore"

(* C3: subdivide() at the last step raises an error and leaves the whole state, *)
(* the index, the records, the per-cell bests and the range, as it was          *)
C3_SubdivideAtLastStepThrows ==
  [][(lastCall'.op = "subdivide" /\ ~canSubdivide(gs)) => (threw' /\ gs' = gs)]_vars

C3_Witness ==
  /\ lastCall.op = "subdivide"
  /\ threw
  /\ Cardinality(DOMAIN gs.explored) = MaxRecords
  /\ gs.nccMin < gs.nccMax

(* C4: between two successful subdivide() calls the set of keys with a record  *)
(* only grows: explore removes none, refreshFadeRange and a failed subdivide   *)
(* neither add nor remove one                                                  *)
C4_RecordsOnlyGrow ==
  [][\/ lastCall'.op = "subdivide" /\ ~threw'
     \/ /\ DOMAIN gs.explored \subseteq DOMAIN gs'.explored
        /\ lastCall'.op # "explore" => DOMAIN gs'.explored = DOMAIN gs.explored]_vars

C4_Witness ==
  /\ lastCall.op = "refreshFadeRange"
  /\ ~IsNull(gs.fadeHalfLife)
  /\ Cardinality(DOMAIN gs.explored) = MaxRecords
  /\ gs.nccMin = PosInf

(* C5: after explore(cell, psi, s) exactly one record carries (cell, psi), with   *)
(* score s; the records of the other keys are as before; getPsiNccValues(cell)    *)
(* maps psi to s and, for every cell, is exactly the map of that cell's records   *)
C5_ExploreUpserts ==
  [][lastCall'.op = "explore" =>
       LET cell == Val(lastCall'.cell)
           psi == lastCall'.psiDeg
           key == psiKey(cell, psi)
           mine == {e \in RecordsOf(gs', cell) : e.psiDeg = psi}
       IN /\ mine = {exploreEntry(cell, psi, lastCall'.ncc)}
          /\ DOMAIN gs'.explored = DOMAIN gs.explored \cup {key}
          /\ \A k \in DOMAIN gs.explored \ {key} : gs'.explored[k] = gs.explored[k]
          /\ psi \in DOMAIN getPsiNccValues(gs', cell)
          /\ getPsiNccValues(gs', cell)[psi] = lastCall'.ncc
          /\ \A c \in Cells :
               /\ DOMAIN getPsiNccValues(gs', c) = {e.psiDeg : e \in RecordsOf(gs', c)}
               /\ \A e \in RecordsOf(gs', c) : getPsiNccValues(gs', c)[e.psiDeg] = e.ncc]_vars

C5_Witness ==
  /\ lastCall.op = "explore"
  /\ \E c \in Cells : c # Val(lastCall.cell) /\ RecordsOf(gs, c) # {}
  /\ gs.bestPerCell[cellKey(Val(lastCall.cell))] > lastCall.ncc
  /\ Cardinality(RecordsOf(gs, Val(lastCall.cell))) = 1

(* C6: for every cell getBestNccForCell is the maximum of the scores of the *)
(* records stored for the cell, and null exactly when it has none           *)
C6_BestIsMaxOfRecords ==
  \A c \in Cells :
    getBestNccForCell(gs, c) =
      IF RecordsOf(gs, c) = {} THEN Null
      ELSE Some(SetMax({e.ncc : e \in RecordsOf(gs, c)}, NegInf))

(* C7: with memory fade disabled nccMin and nccMax are the minimum and maximum *)
(* of the scores of all stored records, the sentinels exactly when none is     *)
C7_RangeIsMinMaxOfRecords ==
  IsNull(gs.fadeHalfLife) =>
    /\ gs.nccMin = SetMin(AllScores(gs), PosInf)
    /\ gs.nccMax = SetMax(AllScores(gs), NegInf)

PendingProjections(u) == Len(SelectSeq(u.rafQueue, LAMBDA c : c.kind = "projection"))

(* C8: calls of scheduleProjectionUpdate are coalesced: at most one of its       *)
(* callbacks is pending, one is pending exactly while calls are unserved, a new  *)
(* one is requested only when none is pending, and when the callback runs it     *)
(* serves all the calls with its one updateProjection                            *)
C8_ProjectionUpdatesCoalesced ==
  /\ [](/\ PendingProjections(ui) <= 1
        /\ PendingProjections(ui) = 1 <=> ui.projectionRafId # 0
        /\ ui.pendingRequests > 0 <=> PendingProjections(ui) = 1)
  /\ [][/\ PendingProjections(ui') > PendingProjections(ui) => ui.projectionRafId = 0
        /\ lastCall'.op = "projectionFrame" =>
             /\ PendingProjections(ui) = 1
             /\ PendingProjections(ui') = 0
             /\ ui'.pendingRequests = 0]_vars

C8_Witness ==
  /\ ui.pendingRequests = 3
  /\ PendingProjections(ui) = 1
  /\ lastCall.op = "selectPsi"

CleanTarget == renderProjection(gs.targetRot, gs.targetTilt, gs.targetPsiDeg)

(* C9: the clean target image is never modified, and the score emitted on Submit *)
(* is the score of the clean projections of the target orientation and of the    *)
(* orientation selected at Submit, whatever the level's defocus, noise and fade, *)
(* the low-pass cutoffs and the exploration history                              *)
C9_ScoreOnlyFromOrientations ==
  /\ ui.screen # "none" => ui.heap[ui.targetClean] = CleanTarget
  /\ ~IsNull(ui.result) =>
       Val(ui.result) =
         SubmitScore(CleanTarget,
                     renderProjection(Val(gs.currentCell).rot, Val(gs.currentCell).tilt,
                                      gs.currentPsiDeg))

C9_Witness ==
  /\ ~IsNull(ui.result)
  /\ IsNull(ui.level.defocus)
  /\ ui.currentTargetDisplayed = ui.targetClean
  /\ hasExplored(gs)

(* C10: once the game is set up exactly one button is enabled, Subdivide iff the *)
(* state is not at the last step and Submit iff it is; a score is only produced  *)
(* at the last step and subdivide() never raises its error                       *)
C10_ButtonsFollowStep ==
  ui.screen \in {"game", "score", "title"} =>
    /\ ui.subdivideBtnDisabled = ~canSubdivide(gs)
    /\ ui.submitBtnDisabled = canSubdivide(gs)
    /\ ui.subdivideBtnDisabled # ui.submitBtnDisabled
    /\ ~IsNull(ui.result) => gs.subdivisionIndex = NumSteps - 1
    /\ ~threw

C10_Witness ==
  /\ lastCall.op = "subdivideClick"
  /\ ~canSubdivide(gs)
  /\ ui.subdivideBtnDisabled
  /\ ~ui.submitBtnDisabled

LpOps(img) == SelectSeq(img.ops, LAMBDA o : o.op = "lp")

(* the low-pass operations of an image filtered once at the step's cutoff: none at cutoff 1.0 *)
LpOpsAt(step) ==
  IF step.lpCutoffNyquist >= LpNone THEN <<>> ELSE <<Op("lp", step.lpCutoffNyquist)>>

(* C11: every updateProjection that records an NCC compares a player image and a  *)
(* displayed target image low-pass filtered with the same cutoff, that of the step *)
(* current when it runs, also when it was scheduled before a subdivide and at the  *)
(* first update after setup                                                        *)
C11_NccCutoffsMatch ==
  [][(lastCall'.op = "projectionFrame" /\ ~IsNull(gs.currentCell)) =>
       /\ ~IsNull(ui'.nccInputs)
       /\ LpOps(Val(ui'.nccInputs).player) = LpOpsAt(currentStep(gs'))
       /\ LpOps(Val(ui'.nccInputs).target) = LpOpsAt(currentStep(gs'))
       /\ Val(ui'.nccInputs).target = ui'.heap[ui'.currentTargetDisplayed]
       /\ psiKey(Val(gs.currentCell), gs.currentPsiDeg) \in DOMAIN gs'.explored]_vars

(* an update scheduled before a subdivide has run after it, at a filtering step *)
C11_Witness ==
  /\ lastCall.op = "projectionFrame"
  /\ ui.servedRequests >= 2
  /\ ui.inputs = 0
  /\ gs.subdivisionIndex \in 1..(NumSteps - 2)
  /\ ~IsNull(ui.nccInputs)
  /\ hasExplored(gs)

(* C12: whenever the selected viewing direction changes from a cell A to a cell B  *)
(* the continuous psi is decreased by (B.rot - A.rot) modulo 360 and the selected  *)
(* psi is its quantisation, so that the selected psi after a sequence of cell      *)
(* changes depends only on the first and the last cell                             *)
C12_PsiCompensatesCellChange ==
  [][(/\ ~IsNull(gs.currentCell)
      /\ ~IsNull(gs'.currentCell)
      /\ Val(gs'.currentCell) # Val(gs.currentCell)) =>
       /\ ui'.continuousPsi =
            Wrap360(ui.continuousPsi - (Val(gs'.currentCell).rot - Val(gs.currentCell).rot))
       /\ gs'.currentPsiDeg = snapPsi(ui'.continuousPsi, psiIncrement(gs'))]_vars

(* freshness 0.5^(elapsed/halfLife) >= 0.05 of the record of key k at the clock reading t: *)
(* 20 >= 2^(6*elapsed/h) with elapsed in units of 3 s and h in half-seconds                *)
FreshKeys(s, t) ==
  {k \in DOMAIN s.explored : 20 ^ Val(s.fadeHalfLife) >= 64 ^ (t - s.exploredAt[k])}

(* C13: with fade enabled, right after refreshFadeRange nccMin and nccMax are the   *)
(* minimum and maximum over the stored records of freshness at least 0.05, the     *)
(* sentinels when there is none, and no record is removed; with fade disabled      *)
(* refreshFadeRange changes nothing                                                *)
C13_RefreshFadeRangeOverFresh ==
  [][lastCall'.op = "refreshFadeRange" =>
       IF IsNull(gs.fadeHalfLife) THEN gs' = gs
       ELSE /\ gs'.nccMin = SetMin({gs.explored[k].ncc : k \in FreshKeys(gs, now)}, PosInf)
            /\ gs'.nccMax = SetMax({gs.explored[k].ncc : k \in FreshKeys(gs, now)}, NegInf)
            /\ gs'.explored = gs.explored
            /\ gs'.bestPerCell = gs.bestPerCell
            /\ gs'.exploredAt = gs.exploredAt]_vars

(* a refresh with one record faded and one fresh, of different scores *)
C13_Witness ==
  /\ lastCall.op = "refreshFadeRange"
  /\ ~IsNull(gs.fadeHalfLife)
  /\ \E k1, k2 \in DOMAIN gs.explored :
       /\ k1 \notin FreshKeys(gs, now)
       /\ k2 \in FreshKeys(gs, now)
       /\ gs.explored[k1].ncc # gs.explored[k2].ncc
       /\ gs.nccMin = gs.explored[k2].ncc
       /\ gs.nccMax = gs.explored[k2].ncc

RECURSIVE Pow2(_)
Pow2(n) == IF n = 0 THEN 1 ELSE 2 * Pow2(n - 1)

(* C14: every successful subdivide() moves to a step of strictly smaller angular *)
(* spacing and strictly larger low-pass cutoff and doubles the number of psi     *)
(* steps (12, 24, 48, 96, 192); the last step has cutoff 1.0                     *)
C14_StepsRefine ==
  /\ [](/\ psiSteps(gs) = 12 * Pow2(gs.subdivisionIndex)
        /\ psiSteps(gs) * currentStep(gs).angularSpacingDeg = 360000
        /\ ~canSubdivide(gs) <=> currentStep(gs).lpCutoffNyquist = LpNone)
  /\ [][(lastCall'.op = "subdivide" /\ ~threw') =>
          /\ currentStep(gs').angularSpacingDeg < currentStep(gs).angularSpacingDeg
          /\ currentStep(gs').lpCutoffNyquist > currentStep(gs).lpCutoffNyquist
          /\ psiSteps(gs') = 2 * psiSteps(gs)]_vars

C14_Witness ==
  /\ SuccessfulSubdivide
  /\ gs.subdivisionIndex = NumSteps - 1
  /\ psiSteps(gs) = 192

(***************************************************************************)
(* Scoring: computeFRC and computeScore.  An image is held as its discrete *)
(* Fourier transform, one complex coefficient per frequency (fx, fy); FRC  *)
(* values are integers in hundredths; a resolution is a fraction num/den   *)
(* of Angstroms, +Infinity the fraction 1/0.                               *)
(***************************************************************************)
MaxCoef == 2
MaxPixelSize == 2

(* the image dimension: size x size pixels *)
ImageSize == 4

Complex(re, im) == [re |-> re, im |-> im]

(* fx = ix <= halfSize ? ix : ix - size, for ix in 0..size-1 *)
FreqsOf(size) ==
  {<<fx, fy>> : fx \in (1 - size \div 2)..(size \div 2), fy \in (1 - size \div 2)..(size \div 2)}

(* Math.round(Math.sqrt(fx * fx + fy * fy)) *)
RingOf(p) ==
  LET n == p[1] * p[1] + p[2] * p[2]
  IN CHOOSE r \in 0..(n + 1) :
       /\ r = 0 \/ (2 * r - 1) * (2 * r - 1) <= 4 * n
       /\ 4 * n < (2 * r + 1) * (2 * r + 1)

(* the frequency of the conjugate coefficient of a real image *)
NegFreq(p, size) ==
  <<IF p[1] = size \div 2 THEN p[1] ELSE -p[1], IF p[2] = size \div 2 THEN p[2] ELSE -p[2]>>

(* the transform of the real image whose coefficients have amplitude w[ring + 1] *)
SpectrumOf(w, size) ==
  [p \in FreqsOf(size) |->
     LET r == RingOf(p)
         c == w[(IF r > size \div 2 THEN size \div 2 ELSE r) + 1]
         q == NegFreq(p, size)
     IN IF q = p THEN Complex(c.re, 0)
        ELSE IF p[1] > q[1] \/ (p[1] = q[1] /\ p[2] > q[2]) THEN c
        ELSE Complex(c.re, -c.im)]

Amps == {Complex(x, y) : x \in (-1)..MaxCoef, y \in 0..MaxCoef}

Images == {SpectrumOf(w, ImageSize) : w \in [1..(ImageSize \div 2 + 1) -> Amps]}

(* the image with a single bright pixel: every coefficient is 1 *)
ImpulseImage == SpectrumOf([k \in 1..(ImageSize \div 2 + 1) |-> Complex(1, 0)], ImageSize)

PixelSizes == 1..MaxPixelSize

Rat(num, den) == [num |-> num, den |-> den]

Infinity == Rat(1, 0)

RatLeq(x, y) ==
  IF y.den = 0 THEN TRUE
  ELSE IF x.den = 0 THEN FALSE
  ELSE x.num * y.den <= y.num * x.den

RECURSIVE SumOver(_, _)
SumOver(f, S) ==
  IF S = {} THEN 0
  ELSE LET x == CHOOSE y \in S : TRUE IN f[x] + SumOver(f, S \ {x})

(* FRC values in hundredths *)
FrcOne == 100
FrcHalf == 50

(* crossReal / Math.sqrt(powerA * powerB), rounded towards zero, 0 when the denominator is 0 *)
FrcValue(cross, pA, pB) ==
  IF pA * pB > 0
  THEN LET m == CHOOSE r \in 0..FrcOne :
                  /\ r * r * pA * pB <= FrcOne * FrcOne * cross * cross
                  /\ r = FrcOne \/ (r + 1) * (r + 1) * pA * pB > FrcOne * FrcOne * cross * cross
       IN IF cross < 0 THEN -m ELSE m
  ELSE 0

(* computeFRC(a, b, size, pixelSize) *)
computeFRC(a, b, size, pixelSize) ==
  LET maxRing == size \div 2
      inRing(r) == {p \in FreqsOf(size) : RingOf(p) = r}
      crossReal == [r \in 0..maxRing |->
                      SumOver([p \in FreqsOf(size) |-> a[p].re * b[p].re + a[p].im * b[p].im], inRing(r))]
      powerA == [r \in 0..maxRing |->
                   SumOver([p \in FreqsOf(size) |-> a[p].re * a[p].re + a[p].im * a[p].im], inRing(r))]
      powerB == [r \in 0..maxRing |->
                   SumOver([p \in FreqsOf(size) |-> b[p].re * b[p].re + b[p].im * b[p].im], inRing(r))]
      frcCurve == [r \in 0..maxRing |-> FrcValue(crossReal[r], powerA[r], powerB[r])]
      crossings == {r \in 1..maxRing : frcCurve[r] < FrcHalf /\ frcCurve[r - 1] >= FrcHalf}
      r1 == CHOOSE r \in crossings : \A x \in crossings : r <= x
      crossingFreq ==
        IF crossings = {} THEN Null
        ELSE Some(Rat((r1 - 1) * (frcCurve[r1 - 1] - frcCurve[r1]) + (frcCurve[r1 - 1] - FrcHalf),
                      (frcCurve[r1 - 1] - frcCurve[r1]) * size))
      resolutionAngstrom ==
        IF ~IsNull(crossingFreq) /\ Val(crossingFreq).num > 0
        THEN Rat(pixelSize * Val(crossingFreq).den, Val(crossingFreq).num)
        ELSE IF frcCurve[maxRing] >= FrcHalf THEN Rat(2 * pixelSize, 1)
        ELSE Infinity
  IN [frcCurve |-> frcCurve, resolutionAngstrom |-> resolutionAngstrom, crossingFreq |-> crossingFreq]

starsOfByPixelSize(resolutionAngstrom, nyquistRes) ==
  IF RatLeq(Rat(4 * resolutionAngstrom.num, resolutionAngstrom.den), Rat(3 * nyquistRes, 1)) THEN 3
  ELSE IF RatLeq(Rat(2 * resolutionAngstrom.num, resolutionAngstrom.den), Rat(3 * nyquistRes, 1)) THEN 2
  ELSE IF RatLeq(Rat(2 * resolutionAngstrom.num, resolutionAngstrom.den), Rat(8 * nyquistRes, 1)) THEN 1
  ELSE 0

(* the star rating of computeScore: thresholds 1.5, 3 and 8 times nyquistRes *)
starsOf(resolutionAngstrom, nyquistRes) ==
  IF RatLeq(Rat(2 * resolutionAngstrom.num, resolutionAngstrom.den), Rat(3 * nyquistRes, 1)) THEN 3
  ELSE IF RatLeq(resolutionAngstrom, Rat(3 * nyquistRes, 1)) THEN 2
  ELSE IF RatLeq(resolutionAngstrom, Rat(8 * nyquistRes, 1)) THEN 1
  ELSE 0

(* computeScore(targetProjection, playerProjection, size, pixelSize) *)
computeScore(targetProjection, playerProjection, size, pixelSize) ==
  LET frc == computeFRC(targetProjection, playerProjection, size, pixelSize)
      nyquistRes == 2 * pixelSize
  IN [resolutionAngstrom |-> frc.resolutionAngstrom,
      stars |-> starsOf(frc.resolutionAngstrom, nyquistRes),
      frcCurve |-> frc.frcCurve,
      pixelSize |-> pixelSize]

(* a call of computeFRC or computeScore on two images, before and after it returns *)
InitScore ==
  /\ \E fn \in {"computeFRC", "computeScore"}, b \in Images, pixelSize \in PixelSizes :
       \E a \in {ImpulseImage, b} :
         calc = [fn |-> fn, a |-> a, b |-> b, size |-> ImageSize, pixelSize |-> pixelSize,
                 done |-> FALSE, out |-> Null]
  /\ gs = NewGameState(0, 0, 0, Null)
  /\ now = 0
  /\ lastCall = Call("new", Null, 0, 0)
  /\ threw = FALSE
  /\ ui = NoScreen

ComputeFRC ==
  /\ calc.fn = "computeFRC"
  /\ ~calc.done
  /\ calc' = [calc EXCEPT !.done = TRUE,
                          !.out = Some(computeFRC(calc.a, calc.b, calc.size, calc.pixelSize))]
  /\ UNCHANGED <<gs, now, lastCall, threw, ui>>

ComputeScore ==
  /\ calc.fn = "computeScore"
  /\ ~calc.done
  /\ calc' = [calc EXCEPT !.done = TRUE,
                          !.out = Some(computeScore(calc.a, calc.b, calc.size, calc.pixelSize))]
  /\ UNCHANGED <<gs, now, lastCall, threw, ui>>

NextScore == ComputeFRC \/ ComputeScore

SpecScore == InitScore /\ [][NextScore]_vars

ScoreDone == calc.fn = "computeScore" /\ calc.done

FrcDone == calc.fn = "computeFRC" /\ calc.done

ProbeResolutions == {Rat(n, d) : n \in 1..(20 * MaxPixelSize), d \in 0..2}

(* C15: stars are 3 iff resolution <= 1.5 nyq, 2 iff 1.5 nyq < resolution <= 3 nyq, *)
(* 1 iff 3 nyq < resolution <= 8 nyq and 0 otherwise, +Infinity included, with      *)
(* nyq = 2 * pixelSize; a larger resolution value never has more stars              *)
C15_StarsFromResolution ==
  ScoreDone =>
    LET res == Val(calc.out).resolutionAngstrom
        stars == Val(calc.out).stars
        nyq == 2 * calc.pixelSize
        upTo(k2) == RatLeq(Rat(2 * res.num, res.den), Rat(k2 * nyq, 1))
    IN /\ stars \in 0..3
       /\ stars = 3 <=> upTo(3)
       /\ stars = 2 <=> (~upTo(3) /\ upTo(6))
       /\ stars = 1 <=> (~upTo(6) /\ upTo(16))
       /\ stars = 0 <=> ~upTo(16)
       /\ res = Infinity => stars = 0
       /\ \A probe \in ProbeResolutions :
            /\ RatLeq(res, probe) => starsOf(probe, nyq) <= stars
            /\ RatLeq(probe, res) => starsOf(probe, nyq) >= stars

(* a finite resolution above Nyquist rated with one star *)
C15_Witness ==
  /\ ScoreDone
  /\ Val(calc.out).stars = 1
  /\ Val(calc.out).resolutionAngstrom.den > 1
  /\ calc.a # calc.b

(* C16: when the FRC curve is below 0.5 already at ring 1 computeFRC reports *)
(* resolutionAngstrom = +Infinity, whatever the value at the DC ring 0       *)
C16_LowAtRing1IsInfinite ==
  (FrcDone /\ Val(calc.out).frcCurve[1] < FrcHalf) =>
    Val(calc.out).resolutionAngstrom = Infinity

(* C17: an image compared with itself has resolutionAngstrom = 2 * pixelSize, *)
(* also when some frequency ring of the image has no power                    *)
C17_SelfFrcIsNyquist ==
  (FrcDone /\ calc.a = calc.b) =>
    /\ Val(calc.out).resolutionAngstrom.den > 0
    /\ Val(calc.out).resolutionAngstrom.num = 2 * calc.pixelSize * Val(calc.out).resolutionAngstrom.den
    /\ IsNull(Val(calc.out).crossingFreq)

(* ------------------------------------------------------------------ *)
(* Symmetry engine (core/symmetry.ts)                                  *)
(*                                                                     *)
(* Numbers are fixed point with four decimals (Unit is 1.0).  A group  *)
(* name is a sequence of characters.  Matrices are sequences of nine   *)
(* entries in row-major order, index k here being index k - 1 there.   *)
(* ------------------------------------------------------------------ *)

MaxFold == 7

Unit == 10000

(* eps of isIdentity and mat3Equal: far above the rounding error of a *)
(* product, far below the distance of two group elements              *)
MatEps == 10

(* threshold of cleanMatrix: the rounding noise of one entry *)
CleanEps == 2

(* eps of isCanonicalDirection for the z comparison and, in millidegrees, *)
(* for the azimuth comparison                                             *)
DirEps == 10

AngEps == 500

Abs(x) == IF x < 0 THEN -x ELSE x

(* a / b rounded to the nearest integer, b > 0 *)
Round(a, b) == (2 * a + b) \div (2 * b)

(* cos and sin of j / f of a turn, f in 1..8, j in 0..f-1 *)
TrigTable ==
  <<
    <<<<10000, 0>>>>,
    <<<<10000, 0>>, <<-10000, 0>>>>,
    <<<<10000, 0>>, <<-5000, 8660>>, <<-5000, -8660>>>>,
    <<<<10000, 0>>, <<0, 10000>>, <<-10000, 0>>, <<0, -10000>>>>,
    <<<<10000, 0>>, <<3090, 9511>>, <<-8090, 5878>>, <<-8090, -5878>>, <<3090, -9511>>>>,
    <<<<10000, 0>>, <<5000, 8660>>, <<-5000, 8660>>, <<-10000, 0>>, <<-5000, -8660>>, <<5000, -8660>>>>,
    <<<<10000, 0>>, <<6235, 7818>>, <<-2225, 9749>>, <<-9010, 4339>>, <<-9010, -4339>>, <<-2225, -9749>>, <<6235, -7818>>>>,
    <<<<10000, 0>>, <<7071, 7071>>, <<0, 10000>>, <<-7071, 7071>>, <<-10000, 0>>, <<-7071, -7071>>, <<0, -10000>>, <<7071, -7071>>>>
  >>

(* an angle is a fraction num / den of a full turn *)
Turn(num, den) == [num |-> num, den |-> den]

MathCos(angle) == TrigTable[angle.den][(angle.num % angle.den) + 1][1]

MathSin(angle) == TrigTable[angle.den][(angle.num % angle.den) + 1][2]

MathSqrt(x) == CHOOSE r \in 0..(2 * Unit) : r * r <= x /\ x < (r + 1) * (r + 1)

(* atan(z) in millidegrees for z in [0, 1], z in fixed point *)
AtanUnit(z) == Round(z * (45000 + Round(15640 * (Unit - z), Unit)), Unit)

(* Math.atan2 in millidegrees, in (-180000, 180000] *)
MathAtan2(y, x) ==
  LET a == Abs(x)
      b == Abs(y)
      ang == IF a = 0 /\ b = 0 THEN 0
             ELSE IF a >= b THEN AtanUnit(Round(b * Unit, a))
             ELSE 90000 - AtanUnit(Round(a * Unit, b))
  IN IF x >= 0 THEN (IF y < 0 THEN -ang ELSE ang)
     ELSE (IF y < 0 THEN ang - 180000 ELSE 180000 - ang)

Identity == <<Unit, 0, 0, 0, Unit, 0, 0, 0, Unit>>

rotationAboutAxis(angle, axis) ==
  LET ax == axis[1]
      ay == axis[2]
      az == axis[3]
      len == MathSqrt(ax * ax + ay * ay + az * az)
      nx == Round(ax * Unit, len)
      ny == Round(ay * Unit, len)
      nz == Round(az * Unit, len)
      c == MathCos(angle)
      s == MathSin(angle)
      t == Unit - c
      tt(u, v) == Round(t * Round(u * v, Unit), Unit)
      ss(u) == Round(s * u, Unit)
  IN << tt(nx, nx) + c,      tt(nx, ny) - ss(nz), tt(nx, nz) + ss(ny),
        tt(nx, ny) + ss(nz), tt(ny, ny) + c,      tt(ny, nz) - ss(nx),
        tt(nx, nz) - ss(ny), tt(ny, nz) + ss(nx), tt(nz, nz) + c >>

mat3Mul(a, b) ==
  [k \in 1..9 |->
     LET i == (k - 1) \div 3
         j == (k - 1) % 3
     IN Round(a[i * 3 + 1] * b[j + 1] + a[i * 3 + 2] * b[3 + j + 1] + a[i * 3 + 3] * b[6 + j + 1],
              Unit)]

isIdentityNever(m) == FALSE

isIdentity(m) == \A i \in 1..9 : ~(Abs(m[i] - Identity[i]) > MatEps)

mat3Equal(a, b) == \A i \in 1..9 : ~(Abs(a[i] - b[i]) > MatEps)

cleanMatrix(m) == [i \in 1..9 |-> IF Abs(m[i]) < CleanEps THEN 0 ELSE m[i]]

(* String.prototype.toUpperCase on the letters that occur in the inputs *)
UpperChar(c) ==
  CASE c = "c" -> "C"
    [] c = "d" -> "D"
    [] c = "t" -> "T"
    [] c = "o" -> "O"
    [] c = "i" -> "I"
    [] c = "x" -> "X"
    [] OTHER -> c

toUpperCase(s) == [k \in 1..Len(s) |-> UpperChar(s[k])]

DigitVal(c) == CHOOSE d \in 0..9 : DigitChars[d + 1] = c

RECURSIVE parseInt(_)
parseInt(s) ==
  IF Len(s) = 0 THEN 0
  ELSE 10 * parseInt(SubSeq(s, 1, Len(s) - 1)) + DigitVal(s[Len(s)])

(* g.match(/^L(\d+)$/) for the letter L: the parsed digits, or Null *)
matchFold(g, letter) ==
  IF /\ Len(g) >= 2
     /\ g[1] = letter
     /\ \A k \in 2..Len(g) : \E d \in 1..10 : DigitChars[d] = g[k]
  THEN Some(parseInt(SubSeq(g, 2, Len(g))))
  ELSE Null

RotAxisGenerator(fold, axis) == [fold |-> fold, axis |-> axis]

Returned(v) == [threw |-> FALSE, value |-> v]

Thrown == [threw |-> TRUE, value |-> Null]

getGenerators(group) ==
  LET g == toUpperCase(group)
      cnMatch == matchFold(g, "C")
      dnMatch == matchFold(g, "D")
  IN IF g = <<"C", "1">> THEN Returned(<<>>)
     ELSE IF ~IsNull(cnMatch)
       THEN Returned(<<RotAxisGenerator(Val(cnMatch), <<0, 0, Unit>>)>>)
     ELSE IF ~IsNull(dnMatch)
       THEN Returned((IF Val(dnMatch) > 1
                      THEN <<RotAxisGenerator(Val(dnMatch), <<0, 0, Unit>>)>>
                      ELSE <<>>)
                     \o <<RotAxisGenerator(2, <<Unit, 0, 0>>)>>)
     ELSE IF g = <<"T">>
       THEN Returned(<<RotAxisGenerator(3, <<0, 0, Unit>>),
                       RotAxisGenerator(2, <<0, 8165, 5774>>)>>)
     ELSE IF g = <<"O">>
       THEN Returned(<<RotAxisGenerator(3, <<5774, 5774, 5774>>),
                       RotAxisGenerator(4, <<0, 0, Unit>>)>>)
     ELSE IF g = <<"I">>
       THEN Returned(<<RotAxisGenerator(2, <<0, 0, Unit>>),
                       RotAxisGenerator(5, <<5257, 0, 8507>>),
                       RotAxisGenerator(3, <<0, 3568, 9342>>)>>)
     ELSE Thrown

(* the fold - 1 rotations of one generator, at multiples of 360 / fold *)
axisMatrices(gen) ==
  [j \in 1..(gen.fold - 1) |-> cleanMatrix(rotationAboutAxis(Turn(j, gen.fold), gen.axis))]

RECURSIVE initialMatrices(_)
initialMatrices(generators) ==
  IF Len(generators) = 0 THEN <<>>
  ELSE axisMatrices(Head(generators)) \o initialMatrices(Tail(generators))

(* matrices.some((m) => mat3Equal(m, product)) *)
someEqual(matrices, product) == \E k \in 1..Len(matrices) : mat3Equal(matrices[k], product)

(* the cosine of the angle between two rotations, (trace - 1) / 2 clamped to  *)
(* [-1, 1]; the code returns its arc cosine, which is strictly decreasing, so *)
(* the smaller angle is the larger cosine                                     *)
angularDistance(r1, r2) ==
  LET trace == Round(r1[1] * r2[1] + r1[2] * r2[2] + r1[3] * r2[3], Unit)
               + Round(r1[4] * r2[4] + r1[5] * r2[5] + r1[6] * r2[6], Unit)
               + Round(r1[7] * r2[7] + r1[8] * r2[8] + r1[9] * r2[9], Unit)
      half == Round(trace - Unit, 2)
  IN IF half > Unit THEN Unit ELSE IF half < -Unit THEN -Unit ELSE half

(* sym is row-major, r and the result are column-major *)
applySymmetry(r, sym) ==
  [k \in 1..9 |->
     LET j == (k - 1) \div 3
         i == (k - 1) % 3
     IN Round(sym[i * 3 + 1] * r[j * 3 + 1] + sym[i * 3 + 2] * r[j * 3 + 2]
              + sym[i * 3 + 3] * r[j * 3 + 3], Unit)]

(* the loop of symmetricAngularDistance over the matrices of the group *)
minSymmetricDistance(r1, r2, symMatrices) ==
  SetMax({angularDistance(r1, r2)}
         \cup {angularDistance(r1, applySymmetry(r2, symMatrices[k])) : k \in 1..Len(symMatrices)},
         0)

(* rot and tilt are millidegrees, multiples of 45 degrees *)
isCanonicalDirection(rot, tilt, symMatrices) ==
  LET sinT == MathSin(Turn(tilt \div 45000, 8))
      vx == Round(sinT * MathCos(Turn(rot \div 45000, 8)), Unit)
      vy == Round(sinT * MathSin(Turn(rot \div 45000, 8)), Unit)
      vz == MathCos(Turn(tilt \div 45000, 8))
      rejects(sym) ==
        LET sx == Round(sym[1] * vx + sym[2] * vy + sym[3] * vz, Unit)
            sy == Round(sym[4] * vx + sym[5] * vy + sym[6] * vz, Unit)
            sz == Round(sym[7] * vx + sym[8] * vy + sym[9] * vz, Unit)
        IN \/ sz > vz + DirEps
           \/ /\ Abs(sz - vz) < DirEps
              /\ MathAtan2(sy, sx) < MathAtan2(vy, vx) - AngEps
  IN ~\E k \in 1..Len(symMatrices) : rejects(symMatrices[k])

(* ---- the symmetry entry points as one sequential caller ---- *)

FoldNames(letter) == {<<letter>> \o NatStr(n) : n \in 1..MaxFold}

SupportedNames ==
  FoldNames("C") \cup FoldNames("D") \cup {<<"T">>, <<"O">>, <<"I">>, <<"c", "4">>, <<"d", "2">>, <<"t">>}

UnknownNames == {<<"X">>, <<"C">>, <<"T", "2">>}

GroupNames == SupportedNames \cup UnknownNames

(* the arguments of a call besides the group name; an entry point reads only *)
(* its own                                                                    *)
NoArgs == [rot |-> 0, tilt |-> 0, r1 |-> Identity, r2 |-> Identity]

(* column-major rotations handed to symmetricAngularDistance: the identity *)
(* and a quarter turn about Z                                              *)
RotationPairs == {[rot |-> 0, tilt |-> 0, r1 |-> Identity, r2 |-> <<0, Unit, 0, -Unit, 0, 0, 0, 0, Unit>>]}

(* (rot, tilt) handed to isInAsymmetricUnit, millidegrees *)
DirectionArgs ==
  {[NoArgs EXCEPT !.rot = d[1], !.tilt = d[2]] :
     d \in {<<0, 0>>, <<0, 45000>>, <<0, 135000>>, <<270000, 45000>>}}

(* what an entry point returns: a matrix list, a number or a boolean *)
OfMatrices(m) == [matrices |-> m, number |-> 0, flag |-> FALSE]

OfNumber(n) == [matrices |-> <<>>, number |-> n, flag |-> FALSE]

OfFlag(b) == [matrices |-> <<>>, number |-> 0, flag |-> b]

(* the caller's continuation once getSymmetryMatrices has returned symMatrices *)
symResult(c, symMatrices) ==
  CASE c.fn = "getSymmetryMatrices" -> OfMatrices(symMatrices)
    [] c.fn = "symmetryOrder" -> OfNumber(Len(symMatrices) + 1)
    [] c.fn = "symmetricAngularDistance" ->
         OfNumber(minSymmetricDistance(c.arg.r1, c.arg.r2, symMatrices))
    [] c.fn = "isInAsymmetricUnit" ->
         OfFlag(isCanonicalDirection(c.arg.rot, c.arg.tilt, symMatrices))

symReturn(c, v) == [c EXCEPT !.pc = "done", !.out = Some(v)]

(* getSymmetryMatrices up to the closure loop of generateSymmetryMatrices *)
getSymmetryMatrices(c) ==
  LET key == toUpperCase(c.group)
      generators == getGenerators(key)
  IN IF key \in DOMAIN c.cache THEN symReturn(c, symResult(c, c.cache[key]))
     ELSE IF generators.threw THEN [c EXCEPT !.pc = "done", !.threw = TRUE]
     ELSE [c EXCEPT !.pc = "while",
                    !.matrices = initialMatrices(generators.value),
                    !.changed = TRUE]

symmetryOrder(c) ==
  IF toUpperCase(c.group) = <<"C", "1">> THEN symReturn(c, OfNumber(1))
  ELSE getSymmetryMatrices(c)

symmetricAngularDistance(c) ==
  IF toUpperCase(c.group) = <<"C", "1">> THEN symReturn(c, OfNumber(angularDistance(c.arg.r1, c.arg.r2)))
  ELSE getSymmetryMatrices(c)

isInAsymmetricUnit(c) ==
  LET g == toUpperCase(c.group)
      rot == c.arg.rot
      tilt == c.arg.tilt
      cnMatch == matchFold(g, "C")
      dnMatch == matchFold(g, "D")
  IN IF g = <<"C", "1">> THEN symReturn(c, OfFlag(TRUE))
     ELSE IF ~IsNull(cnMatch)
       THEN symReturn(c, OfFlag(rot >= 0 /\ rot * Val(cnMatch) < 360000))
     ELSE IF ~IsNull(dnMatch)
       THEN symReturn(c, OfFlag(rot >= 0 /\ rot * Val(dnMatch) < 360000 /\ tilt <= 90000))
     ELSE IF g \in {<<"T">>, <<"O">>, <<"I">>} THEN getSymmetryMatrices(c)
     ELSE symReturn(c, OfFlag(TRUE))

NewSymCall(group, cache, fn, arg) ==
  [fn |-> fn, group |-> group, arg |-> arg, pc |-> "call", cache |-> cache,
   matrices |-> <<>>, n |-> 0, i |-> 0, j |-> 0, changed |-> FALSE,
   threw |-> FALSE, out |-> Null]

InitSym ==
  /\ \E group \in GroupNames :
       calc = [NewSymCall(group, EmptyMap, "none", NoArgs) EXCEPT !.pc = "idle"]
  /\ gs = NewGameState(0, 0, 0, Null)
  /\ now = 0
  /\ lastCall = Call("new", Null, 0, 0)
  /\ threw = FALSE
  /\ ui = NoScreen

(* a caller invokes one entry point; the module-level cache outlives the call *)
CallGetSymmetryMatrices ==
  /\ calc.pc \in {"idle", "done"}
  /\ calc' = getSymmetryMatrices(NewSymCall(calc.group, calc.cache, "getSymmetryMatrices", NoArgs))
  /\ UNCHANGED <<gs, now, lastCall, threw, ui>>

CallSymmetryOrder ==
  /\ calc.pc \in {"idle", "done"}
  /\ calc' = symmetryOrder(NewSymCall(calc.group, calc.cache, "symmetryOrder", NoArgs))
  /\ UNCHANGED <<gs, now, lastCall, threw, ui>>

CallSymmetricAngularDistance ==
  /\ calc.pc \in {"idle", "done"}
  /\ \E p \in RotationPairs :
       calc' = symmetricAngularDistance(
                 NewSymCall(calc.group, calc.cache, "symmetricAngularDistance", p))
  /\ UNCHANGED <<gs, now, lastCall, threw, ui>>

CallIsInAsymmetricUnit ==
  /\ calc.pc \in {"idle", "done"}
  /\ \E d \in DirectionArgs :
       calc' = isInAsymmetricUnit(NewSymCall(calc.group, calc.cache, "isInAsymmetricUnit", d))
  /\ UNCHANGED <<gs, now, lastCall, threw, ui>>

(* the head of while (changed): start a pass over the n matrices known now, *)
(* or leave the loop, fill the cache and return to the caller               *)
ClosurePass ==
  /\ calc.pc = "while"
  /\ calc' = IF calc.changed
             THEN [calc EXCEPT !.changed = FALSE, !.n = Len(calc.matrices), !.i = 0, !.j = 0,
                               !.pc = IF Len(calc.matrices) = 0 THEN "while" ELSE "for"]
             ELSE symReturn([calc EXCEPT !.cache = MapSet(calc.cache, toUpperCase(calc.group),
                                                          calc.matrices)],
                            symResult(calc, calc.matrices))
  /\ UNCHANGED <<gs, now, lastCall, threw, ui>>

(* the body of the inner loop for one (i, j), without changed = true *)
ClosureStepKeepsChanged ==
  /\ calc.pc = "for"
  /\ LET product == cleanMatrix(mat3Mul(calc.matrices[calc.i + 1], calc.matrices[calc.j + 1]))
         isNew == ~isIdentity(product) /\ ~someEqual(calc.matrices, product)
         lastJ == calc.j + 1 = calc.n
         lastI == calc.i + 1 = calc.n
     IN calc' = [calc EXCEPT
                   !.matrices = IF isNew THEN Append(calc.matrices, product) ELSE calc.matrices,
                   !.j = IF lastJ THEN 0 ELSE calc.j + 1,
                   !.i = IF lastJ THEN calc.i + 1 ELSE calc.i,
                   !.pc = IF lastJ /\ lastI THEN "while" ELSE "for"]
  /\ UNCHANGED <<gs, now, lastCall, threw, ui>>

(* the body of the inner loop for one (i, j) *)
ClosureStep ==
  /\ calc.pc = "for"
  /\ LET product == cleanMatrix(mat3Mul(calc.matrices[calc.i + 1], calc.matrices[calc.j + 1]))
         isNew == ~isIdentity(product) /\ ~someEqual(calc.matrices, product)
         lastJ == calc.j + 1 = calc.n
         lastI == calc.i + 1 = calc.n
     IN calc' = [calc EXCEPT
                   !.matrices = IF isNew THEN Append(calc.matrices, product) ELSE calc.matrices,
                   !.changed = IF isNew THEN TRUE ELSE calc.changed,
                   !.j = IF lastJ THEN 0 ELSE calc.j + 1,
                   !.i = IF lastJ THEN calc.i + 1 ELSE calc.i,
                   !.pc = IF lastJ /\ lastI THEN "while" ELSE "for"]
  /\ UNCHANGED <<gs, now, lastCall, threw, ui>>

NextSym ==
  \/ CallGetSymmetryMatrices
  \/ CallSymmetryOrder
  \/ CallSymmetricAngularDistance
  \/ CallIsInAsymmetricUnit
  \/ ClosurePass
  \/ ClosureStep

SpecSym == InitSym /\ [][NextSym]_vars

(* getSymmetryMatrices alone: the closure loop runs on the calling thread to *)
(* completion, nothing suspends it                                           *)
NextClosure == CallGetSymmetryMatrices \/ ClosurePass \/ ClosureStep

SpecClosure ==
  InitSym /\ [][NextClosure]_vars /\ WF_vars(ClosurePass) /\ WF_vars(ClosureStep)

(* ---- claims on the symmetry engine ---- *)

SymDone == calc.pc = "done"

(* the names the generator table knows: C<n>, D<n>, T, O, I in either case *)
KnownGroup(group) ==
  LET g == toUpperCase(group)
  IN \/ ~IsNull(matchFold(g, "C"))
     \/ ~IsNull(matchFold(g, "D"))
     \/ g \in {<<"T">>, <<"O">>, <<"I">>}

(* C18: getSymmetryMatrices, symmetryOrder, symmetricAngularDistance and        *)
(* isInAsymmetricUnit called with an unrecognized group name all end in an      *)
(* error and none of them returns a result                                      *)
C18_UnknownGroupFails ==
  (SymDone /\ ~KnownGroup(calc.group)) => (calc.threw /\ IsNull(calc.out))

(* the order of the point group a name stands for *)
GroupOrder(group) ==
  LET g == toUpperCase(group)
  IN IF ~IsNull(matchFold(g, "C")) THEN Val(matchFold(g, "C"))
     ELSE IF ~IsNull(matchFold(g, "D")) THEN 2 * Val(matchFold(g, "D"))
     ELSE IF g = <<"T">> THEN 12
     ELSE IF g = <<"O">> THEN 24
     ELSE 60

(* C19: symmetryOrder(group) is the order of the point group (n for Cn, 2n for *)
(* Dn, 12 for T, 24 for O, 60 for I) and getSymmetryMatrices returns exactly   *)
(* order - 1 matrices, from the closure as well as from the cache              *)
C19_SymmetryOrderIsGroupOrder ==
  (SymDone /\ KnownGroup(calc.group)) =>
    /\ ~calc.threw
    /\ calc.fn = "symmetryOrder" => Val(calc.out).number = GroupOrder(calc.group)
    /\ calc.fn = "getSymmetryMatrices" => Len(Val(calc.out).matrices) = GroupOrder(calc.group) - 1
    /\ toUpperCase(calc.group) \in DOMAIN calc.cache =>
         Len(calc.cache[toUpperCase(calc.group)]) = GroupOrder(calc.group) - 1

(* symmetryOrder('I') has run the closure from the 7 generator rotations to 59 *)
(* matrices and returned 60                                                    *)
C19_Witness ==
  /\ SymDone
  /\ calc.fn = "symmetryOrder"
  /\ calc.group = <<"I">>
  /\ Len(calc.matrices) = 59
  /\ calc.out = Some(OfNumber(60))

(* a set of matrices that is a group without its identity *)
GroupWithoutIdentity(M) ==
  /\ \A k \in 1..Len(M) : ~isIdentity(M[k])
  /\ \A k, l \in 1..Len(M) : k # l => ~mat3Equal(M[k], M[l])
  /\ \A k, l \in 1..Len(M) :
       LET product == mat3Mul(M[k], M[l])
       IN isIdentity(product) \/ \E m \in 1..Len(M) : mat3Equal(M[m], product)

(* C20: for every supported group the closure loop terminates, and the set it *)
(* returns and caches holds no identity, no two equal matrices and, for any   *)
(* two members in either order, their product unless that is the identity     *)
C20_ClosureIsGroup ==
  /\ [](SymDone /\ ~calc.threw /\ toUpperCase(calc.group) \in DOMAIN calc.cache
         => GroupWithoutIdentity(calc.cache[toUpperCase(calc.group)]))
  /\ [](SymDone /\ ~calc.threw /\ calc.fn = "getSymmetryMatrices"
         => GroupWithoutIdentity(Val(calc.out).matrices))
  /\ (calc.pc \in {"while", "for"}) ~> SymDone

(* getSymmetryMatrices('T') has closed the 3 generator rotations to 11 matrices *)
C20_Witness ==
  /\ SymDone
  /\ calc.fn = "getSymmetryMatrices"
  /\ calc.group = <<"T">>
  /\ Len(calc.matrices) = 11
  /\ calc.out = Some(OfMatrices(calc.matrices))
  /\ calc.cache[<<"T">>] = calc.matrices

(* ------------------------------------------------------------------ *)
(* Hexagonal grid on the disc (core/hex-grid.ts)                       *)
(*                                                                     *)
(* A disc point is a pair (x, y) of integers in quarter-hex units: it  *)
(* stands for (hexSize * 3/4 * x, hexSize * sqrt(3)/4 * y), so that    *)
(* the centre of the axial cell (q, r) is (2q, 2(q + 2r)) and the      *)
(* fractional axial coordinates of a point are x/2 and (y - x)/4.      *)
(* Lengths are compared through 1 / hexSize, held in hundredths.       *)
(* ------------------------------------------------------------------ *)

HexUnit == 100

(* 100 * 180000 / (0.65 * pi): 1 / hexSize in hundredths is this over the *)
(* spacing in millidegrees                                                *)
InvHexSizeTimesSpacing == 8814734

InvHexSize(angularSpacingDeg) == Round(InvHexSizeTimesSpacing, angularSpacingDeg)

(* Math.ceil(a / b), b > 0 *)
MathCeil(a, b) == -((-a) \div b)

(* Math.ceil(1.0 / horizSpacing) + 1, horizSpacing = 1.5 * hexSize *)
maxQ(angularSpacingDeg) == MathCeil(2 * InvHexSize(angularSpacingDeg), 3 * HexUnit) + 1

(* Math.ceil(1.0 / vertSpacing) + 1, vertSpacing = sqrt(3) * hexSize *)
maxR(angularSpacingDeg) ==
  LET inv == InvHexSize(angularSpacingDeg)
      reaches(k) == 3 * k * k * HexUnit * HexUnit >= inv * inv
  IN (CHOOSE k \in 0..((inv \div HexUnit) + 1) :
        reaches(k) /\ (k = 0 \/ ~reaches(k - 1))) + 1

(* 16 * (x^2 + y^2) / hexSize^2 of a disc point *)
DiscNorm(x, y) == 9 * x * x + 3 * y * y

(* sqrt(x^2 + y^2) > radius, radius in hundredths of hexSize^-1 units, i.e. *)
(* radius = InvHexSize stands for 1.0 and InvHexSize + HexUnit for 1.0 + hexSize *)
FartherThan(x, y, radius) == DiscNorm(x, y) * HexUnit * HexUnit > 16 * radius * radius

HexCell(q, r, isTop, angularSpacingDeg) ==
  [q |-> q, r |-> r, cx |-> 2 * q, cy |-> 2 * (q + 2 * r), isTop |-> isTop,
   clamped |-> FartherThan(2 * q, 2 * (q + 2 * r), InvHexSize(angularSpacingDeg))]

(* the cells pushed by the two loops; (rot, tilt) of a cell is discToSphere of *)
(* its centre, clamped to the disc for a border cell                           *)
createHexGrid(angularSpacingDeg, isTop) ==
  LET inv == InvHexSize(angularSpacingDeg)
  IN {HexCell(q, r, isTop, angularSpacingDeg) :
        <<q, r>> \in {p \in (-maxQ(angularSpacingDeg)..maxQ(angularSpacingDeg))
                            \X (-maxR(angularSpacingDeg)..maxR(angularSpacingDeg)) :
                        ~FartherThan(2 * p[1], 2 * (p[1] + 2 * p[2]), inv + HexUnit)}}

hitTest(x, y, cells, angularSpacingDeg) ==
  IF FartherThan(x, y, InvHexSize(angularSpacingDeg)) THEN Null
  ELSE
    LET q4 == 2 * x
        r4 == y - x
        s4 == -q4 - r4
        rq0 == Round(q4, 4)
        rr0 == Round(r4, 4)
        rs == Round(s4, 4)
        dq == Abs(4 * rq0 - q4)
        dr == Abs(4 * rr0 - r4)
        ds == Abs(4 * rs - s4)
        rq == IF dq > dr /\ dq > ds THEN -rr0 - rs ELSE rq0
        rr == IF dq > dr /\ dq > ds THEN rr0
              ELSE IF dr > ds THEN -rq0 - rs ELSE rr0
        found == {c \in cells : c.q = rq /\ c.r = rr}
    IN IF found = {} THEN Null ELSE Some(CHOOSE c \in found : TRUE)

(* the axial cells around the loop range whose centre lies within 1 + hexSize *)
NearLattice(angularSpacingDeg) ==
  {p \in (-(maxQ(angularSpacingDeg) + 1)..(maxQ(angularSpacingDeg) + 1))
         \X (-(maxR(angularSpacingDeg) + 3)..(maxR(angularSpacingDeg) + 3)) :
     ~FartherThan(2 * p[1], 2 * (p[1] + 2 * p[2]), InvHexSize(angularSpacingDeg) + HexUnit)}

(* points handed to hitTest: the centres of the near lattice at every step and, *)
(* at the coarsest step, every quarter-hex point of the unit disc              *)
DiscPoints(step) ==
  LET sp == SUBDIVISION_STEPS[step + 1].angularSpacingDeg
  IN {<<2 * p[1], 2 * (p[1] + 2 * p[2])>> : p \in NearLattice(sp)}
     \cup (IF step = 0
           THEN {p \in (-8..8) \X (-14..14) : ~FartherThan(p[1], p[2], InvHexSize(sp))}
           ELSE {})

InitHex ==
  /\ \E step \in 0..(NumSteps - 1), isTop \in BOOLEAN :
       calc = [fn |-> "hexGrid", step |-> step, isTop |-> isTop, pc |-> "start",
               cells |-> {}, point |-> <<0, 0>>, hit |-> Null]
  /\ gs = NewGameState(0, 0, 0, Null)
  /\ now = 0
  /\ lastCall = Call("new", Null, 0, 0)
  /\ threw = FALSE
  /\ ui = NoScreen

CreateHexGrid ==
  /\ calc.pc = "start"
  /\ calc' = [calc EXCEPT
                !.pc = "grid",
                !.cells = createHexGrid(SUBDIVISION_STEPS[calc.step + 1].angularSpacingDeg,
                                        calc.isTop)]
  /\ UNCHANGED <<gs, now, lastCall, threw, ui>>

HitTest ==
  /\ calc.pc = "grid"
  /\ \E p \in DiscPoints(calc.step) :
       calc' = [calc EXCEPT
                  !.pc = "hit",
                  !.point = p,
                  !.hit = hitTest(p[1], p[2], calc.cells,
                                  SUBDIVISION_STEPS[calc.step + 1].angularSpacingDeg)]
  /\ UNCHANGED <<gs, now, lastCall, threw, ui>>

NextHex == CreateHexGrid \/ HitTest

SpecHex == InitHex /\ [][NextHex]_vars

(* ---- claims on the hexagonal grid ---- *)

HexSpacing == SUBDIVISION_STEPS[calc.step + 1].angularSpacingDeg

(* C21: hitTest at the centre (cx, cy) of a cell of createHexGrid returns that *)
(* cell, also for a border cell whose centre lies outside the unit disc        *)
C21_HitTestAtCentreReturnsCell ==
  calc.pc = "hit" =>
    \A c \in calc.cells : (c.cx = calc.point[1] /\ c.cy = calc.point[2]) => calc.hit = Some(c)

(* C22: at each of the five step spacings the grid holds every axial cell whose *)
(* centre lies within 1 + hexSize of the origin, and hitTest finds a cell for   *)
(* every point of the unit disc                                                 *)
C22_GridCoversDisc ==
  /\ calc.pc = "grid" =>
       \A p \in NearLattice(HexSpacing) : \E c \in calc.cells : c.q = p[1] /\ c.r = p[2]
  /\ (calc.pc = "hit" /\ ~FartherThan(calc.point[1], calc.point[2], InvHexSize(HexSpacing)))
       => ~IsNull(calc.hit)

(* ------------------------------------------------------------------ *)
(* ncc on pixel arrays (core/ctf.ts)                                   *)
(*                                                                     *)
(* Pixels are small integers.  The deviations from the mean are held   *)
(* n-fold, n * a[i] - sumA, which scales num and den alike.  A result  *)
(* is NaN or a number in hundredths.                                   *)
(* ------------------------------------------------------------------ *)

MaxPixel == 2

(* a.length *)
NccLength == 3

NccOne == 100

PixelArrays == [1..NccLength -> 0..MaxPixel]

NaN == [nan |-> TRUE, value |-> 0]

Number(v) == [nan |-> FALSE, value |-> v]

RECURSIVE SumSeq(_)
SumSeq(s) == IF Len(s) = 0 THEN 0 ELSE Head(s) + SumSeq(Tail(s))

(* num / den in hundredths, truncated; 0 / 0 is NaN *)
Quotient(num, denSquared) ==
  IF denSquared = 0 THEN (IF num = 0 THEN NaN ELSE Number(IF num > 0 THEN NccOne + 1 ELSE -NccOne - 1))
  ELSE LET mag == CHOOSE v \in 0..NccOne :
                    /\ v * v * denSquared <= NccOne * NccOne * num * num
                    /\ (v = NccOne \/ (v + 1) * (v + 1) * denSquared > NccOne * NccOne * num * num)
       IN Number(IF num < 0 THEN -mag ELSE mag)

(* ncc without the test den === 0 *)
nccPixelsUnguarded(a, b) ==
  LET n == Len(a)
      sumA == SumSeq(a)
      sumB == SumSeq(b)
      da == [i \in 1..n |-> n * a[i] - sumA]
      db == [i \in 1..n |-> n * b[i] - sumB]
      num == SumSeq([i \in 1..n |-> da[i] * db[i]])
      denA == SumSeq([i \in 1..n |-> da[i] * da[i]])
      denB == SumSeq([i \in 1..n |-> db[i] * db[i]])
  IN Quotient(num, denA * denB)

(* ncc of core/ctf.ts on two pixel arrays of equal length *)
nccPixels(a, b) ==
  LET n == Len(a)
      sumA == SumSeq(a)
      sumB == SumSeq(b)
      da == [i \in 1..n |-> n * a[i] - sumA]
      db == [i \in 1..n |-> n * b[i] - sumB]
      num == SumSeq([i \in 1..n |-> da[i] * db[i]])
      denA == SumSeq([i \in 1..n |-> da[i] * da[i]])
      denB == SumSeq([i \in 1..n |-> db[i] * db[i]])
  IN IF denA * denB = 0 THEN Number(0) ELSE Quotient(num, denA * denB)

InitNcc ==
  /\ \E a \in PixelArrays, b \in PixelArrays :
       calc = [fn |-> "ncc", a |-> a, b |-> b, done |-> FALSE, out |-> Number(0)]
  /\ gs = NewGameState(0, 0, 0, Null)
  /\ now = 0
  /\ lastCall = Call("new", Null, 0, 0)
  /\ threw = FALSE
  /\ ui = NoScreen

Ncc ==
  /\ calc.fn = "ncc"
  /\ ~calc.done
  /\ calc' = [calc EXCEPT !.done = TRUE, !.out = nccPixels(calc.a, calc.b)]
  /\ UNCHANGED <<gs, now, lastCall, threw, ui>>

NextNcc == Ncc

SpecNcc == InitNcc /\ [][NextNcc]_vars

(* ---- claims on ncc ---- *)

ZeroVariance(a) == \A i, j \in 1..Len(a) : a[i] = a[j]

(* C24: ncc(a, b) is exactly 0, not NaN and not infinite, whenever one of the *)
(* two arrays has all its elements equal                                      *)
C24_NccZeroOnZeroVariance ==
  (calc.fn = "ncc" /\ calc.done /\ (ZeroVariance(calc.a) \/ ZeroVariance(calc.b)))
    => calc.out = Number(0)

(* ncc of a constant array and a varying one has returned 0 *)
C24_Witness ==
  /\ calc.fn = "ncc"
  /\ calc.done
  /\ ZeroVariance(calc.a)
  /\ ~ZeroVariance(calc.b)
  /\ calc.out = Number(0)

(* ------------------------------------------------------------------ *)
(* CTF and low-pass weights (core/ctf.ts, core/low-pass.ts,            *)
(* core/projection-pipeline.ts)                                        *)
(*                                                                     *)
(* An image is held by its transform (the fft pair around each filter  *)
(* is exact), as coef / unit.  Weights are hundredths, radii are       *)
(* thousandths of an FFT index, cutoffs are 1/10000 of Nyquist,        *)
(* defocus is in 0.1 um, phases are milliradians.                      *)
(* ------------------------------------------------------------------ *)

WeightOne == 100

(* cos(pi * t / 1000) in hundredths *)
CosPi(t) ==
  LET u == t % 2000
      v == IF u > 1000 THEN 2000 - u ELSE u
      quarter(w) == Round(WeightOne * (1000000 - 4 * w * w), 1000000 + w * w)
  IN IF v <= 500 THEN quarter(v) ELSE -quarter(1000 - v)

(* Math.sqrt(fx * fx + fy * fy) in thousandths *)
FreqRadius(p) ==
  LET n == 1000000 * (p[1] * p[1] + p[2] * p[2])
  IN CHOOSE r \in 0..(1000 * (Abs(p[1]) + Abs(p[2]))) : r * r <= n /\ n < (r + 1) * (r + 1)

(* cutoffNyquist * size / 2 in thousandths *)
CutoffIdx(cutoffNyquist, size) == (cutoffNyquist * size) \div 20

(* the raised cosine between rolloffStart and cutoffIdx *)
RaisedCosine(r, rolloffStart, rolloffWidth) ==
  Round(WeightOne + CosPi(Round(1000 * (r - rolloffStart), rolloffWidth)), 2)

(* the weight computed inside the loop of applyLowPass *)
lowPassWeight(r, cutoffNyquist, size) ==
  LET cutoffIdx == CutoffIdx(cutoffNyquist, size)
      rolloffWidth == IF cutoffIdx \div 5 > 1000 THEN cutoffIdx \div 5 ELSE 1000
      rolloffStart == cutoffIdx - rolloffWidth
  IN IF r <= rolloffStart THEN WeightOne
     ELSE IF r >= cutoffIdx THEN 0
     ELSE RaisedCosine(r, rolloffStart, rolloffWidth)

(* lpWeight without the minimum rolloff width of one pixel *)
lpWeightNoMinWidth(freqRadius, cutoffIdx) ==
  LET rolloffWidth == cutoffIdx \div 5
      rolloffStart == cutoffIdx - rolloffWidth
  IN IF freqRadius <= rolloffStart THEN WeightOne
     ELSE IF freqRadius >= cutoffIdx THEN 0
     ELSE RaisedCosine(freqRadius, rolloffStart, rolloffWidth)

lpWeight(freqRadius, cutoffIdx) ==
  LET rolloffWidth == IF cutoffIdx \div 5 > 1000 THEN cutoffIdx \div 5 ELSE 1000
      rolloffStart == cutoffIdx - rolloffWidth
  IN IF freqRadius <= rolloffStart THEN WeightOne
     ELSE IF freqRadius >= cutoffIdx THEN 0
     ELSE RaisedCosine(freqRadius, rolloffStart, rolloffWidth)

(* K1 = pi * lambda at 300 kV, in 1e-6 *)
CtfK1 == 61850

(* K2 = pi / 2 * cs * lambda^3 at cs = 2.7 mm, in 1e-3 *)
CtfK2 == 323640

(* K3 = atan(amplitude / sqrt(1 - amplitude^2)) at amplitude 0.07, in 1e-3 *)
CtfK3 == 70

CTFParams(pixelSize, defocus) == [pixelSize |-> pixelSize, defocus |-> defocus]

(* the CTF value at each frequency, -sin(K1 * deltaf * r2 + K2 * r4 - K3) *)
computeCTF(width, height, params) ==
  [p \in FreqsOf(width) |->
     LET n2 == p[1] * p[1] + p[2] * p[2]
         perA2 == width * width * params.pixelSize * params.pixelSize
         argument == Round(-CtfK1 * params.defocus * n2, perA2)
                     + Round(CtfK2 * n2 * n2, perA2 * perA2) - CtfK3
     IN -CosPi(Round(argument * 1000, 3142) - 500)]

FilterImage(unit, coef) == [unit |-> unit, coef |-> coef]

Scaled(c, w) == Complex(c.re * w, c.im * w)

applyCtfSpectrum(image, size, ctfParams) ==
  LET ctf == computeCTF(size, size, ctfParams)
  IN FilterImage(image.unit * WeightOne,
                 [p \in FreqsOf(size) |-> Scaled(image.coef[p], ctf[p])])

applyLowPassSpectrum(image, size, cutoffNyquist) ==
  IF cutoffNyquist >= LpNone THEN image
  ELSE FilterImage(image.unit * WeightOne,
                   [p \in FreqsOf(size) |->
                      Scaled(image.coef[p], lowPassWeight(FreqRadius(p), cutoffNyquist, size))])

(* w of applyCtfAndLowPass at one frequency, in 1 / (WeightOne * WeightOne) *)
fusedWeight(p, ctf, size, lpCutoffNyquist) ==
  ctf[p] * (IF lpCutoffNyquist >= LpNone THEN WeightOne
            ELSE lpWeight(FreqRadius(p), CutoffIdx(lpCutoffNyquist, size)))

applyCtfAndLowPassSpectrum(image, size, ctfParams, lpCutoffNyquist) ==
  LET ctf == computeCTF(size, size, ctfParams)
  IN FilterImage(image.unit * WeightOne * WeightOne,
                 [p \in FreqsOf(size) |->
                    Scaled(image.coef[p], fusedWeight(p, ctf, size, lpCutoffNyquist))])

(* the cutoffs of the five steps and one above Nyquist *)
FilterCutoffs == {SUBDIVISION_STEPS[k].lpCutoffNyquist : k \in 1..NumSteps} \cup {12000}

(* the defocus of the campaign levels, 1.0 to 4.0 um *)
FilterDefocus == {10, 40}

FilterInputs ==
  {ImpulseImage}
  \cup {SpectrumOf(w, ImageSize) :
          w \in [1..(ImageSize \div 2 + 1) -> {Complex(1, 0), Complex(-1, MaxCoef)}]}

NoImage == FilterImage(0, [p \in FreqsOf(ImageSize) |-> Complex(0, 0)])

InitFilter ==
  /\ \E coef \in FilterInputs, cutoff \in FilterCutoffs, defocus \in FilterDefocus,
        pixelSize \in PixelSizes :
       calc = [fn |-> "filter", projection |-> FilterImage(1, coef), size |-> ImageSize,
               ctfParams |-> CTFParams(2 * pixelSize, defocus), lpCutoffNyquist |-> cutoff,
               fusedDone |-> FALSE, fused |-> NoImage,
               stage |-> 0, sequential |-> NoImage]
  /\ gs = NewGameState(0, 0, 0, Null)
  /\ now = 0
  /\ lastCall = Call("new", Null, 0, 0)
  /\ threw = FALSE
  /\ ui = NoScreen

ApplyCtfAndLowPass ==
  /\ calc.fn = "filter"
  /\ ~calc.fusedDone
  /\ calc' = [calc EXCEPT
                !.fusedDone = TRUE,
                !.fused = applyCtfAndLowPassSpectrum(calc.projection, calc.size, calc.ctfParams,
                                                     calc.lpCutoffNyquist)]
  /\ UNCHANGED <<gs, now, lastCall, threw, ui>>

ApplyCtf ==
  /\ calc.fn = "filter"
  /\ calc.stage = 0
  /\ calc' = [calc EXCEPT
                !.stage = 1,
                !.sequential = applyCtfSpectrum(calc.projection, calc.size, calc.ctfParams)]
  /\ UNCHANGED <<gs, now, lastCall, threw, ui>>

ApplyLowPass ==
  /\ calc.fn = "filter"
  /\ calc.stage = 1
  /\ calc' = [calc EXCEPT
                !.stage = 2,
                !.sequential = applyLowPassSpectrum(calc.sequential, calc.size,
                                                    calc.lpCutoffNyquist)]
  /\ UNCHANGED <<gs, now, lastCall, threw, ui>>

NextFilter == ApplyCtfAndLowPass \/ ApplyCtf \/ ApplyLowPass

SpecFilter == InitFilter /\ [][NextFilter]_vars

(* ---- claims on the filters ---- *)

SameImage(x, y) ==
  \A p \in FreqsOf(ImageSize) :
    /\ x.coef[p].re * y.unit = y.coef[p].re * x.unit
    /\ x.coef[p].im * y.unit = y.coef[p].im * x.unit

(* C23: at every frequency the weight of applyCtfAndLowPass is the CTF value   *)
(* times the weight of applyLowPass at that radius (1 at a cutoff >= 1.0), and *)
(* the fused filter gives the image of applyCtf followed by applyLowPass       *)
C23_FusedEqualsSequential ==
  (calc.fn = "filter" /\ calc.fusedDone /\ calc.stage = 2) =>
    /\ \A p \in FreqsOf(calc.size) :
         fusedWeight(p, computeCTF(calc.size, calc.size, calc.ctfParams), calc.size,
                     calc.lpCutoffNyquist)
         = computeCTF(calc.size, calc.size, calc.ctfParams)[p]
           * (IF calc.lpCutoffNyquist >= LpNone THEN WeightOne
              ELSE lowPassWeight(FreqRadius(p), calc.lpCutoffNyquist, calc.size))
    /\ SameImage(calc.fused, calc.sequential)

(* both pipelines have run at the heaviest cutoff, where the rolloff is one *)
(* pixel wide and the filtered image is neither the input nor empty         *)
C23_Witness ==
  /\ calc.fn = "filter"
  /\ calc.fusedDone
  /\ calc.stage = 2
  /\ calc.lpCutoffNyquist = 625
  /\ ~SameImage(calc.fused, calc.projection)
  /\ \E p \in FreqsOf(calc.size) : calc.fused.coef[p] # Complex(0, 0)

(***************************************************************************)
(* The selection of the game screen                                        *)
(***************************************************************************)
(* [...topDisc.grid, ...bottomDisc.grid] of the current step holds the cell *)
InActiveGrid(cell) ==
  \E k \in 1..Len(Grid(gs.subdivisionIndex)) : Grid(gs.subdivisionIndex)[k] = cell

(* C25: after every handler of the game screen the selected cell is null or a   *)
(* cell of the grid of the current step, and every exploration record is keyed  *)
(* by a cell of the grid of the step at which it was recorded, which is the     *)
(* current step since subdivide clears the records                              *)
C25_SelectionInActiveGrid ==
  ui.screen = "game" =>
    /\ IsNull(gs.currentCell) \/ InActiveGrid(Val(gs.currentCell))
    /\ \A key \in DOMAIN gs.explored :
         \E k \in 1..Len(Grid(gs.subdivisionIndex)) :
           LET cell == Grid(gs.subdivisionIndex)[k]
           IN /\ startsWith(key, cellKey(cell) \o <<"_">>)
              /\ gs.explored[key].rot = cell.rot
              /\ gs.explored[key].tilt = cell.tilt

(* a cell other than the pole was carried over a subdivide and explored there *)
C25_Witness ==
  /\ ui.screen = "game"
  /\ lastCall.op = "projectionFrame"
  /\ gs.subdivisionIndex >= 1
  /\ ~IsNull(gs.currentCell)
  /\ Val(gs.currentCell).q # 0
  /\ ui.inputs = 0
  /\ psiKey(Val(gs.currentCell), gs.currentPsiDeg) \in DOMAIN gs.explored

(* C26: after every handler of the game screen the selected psi lies in [0, 360) *)
(* and is an integer multiple of the psi increment 360/psiSteps of the current   *)
(* step, after the compensation in selectCell, after a selection on the psi ring *)
(* and after the re-snapping of subdivide                                        *)
C26_PsiOnRingStep ==
  ui.screen = "game" =>
    /\ gs.currentPsiDeg >= 0
    /\ gs.currentPsiDeg < 360000
    /\ gs.currentPsiDeg % psiIncrement(gs) = 0
    /\ \E i \in 0..(psiSteps(gs) - 1) : gs.currentPsiDeg = i * psiIncrement(gs)

(* a cell change has compensated psi by a rotation that is no multiple of the *)
(* increment, and the continuous psi is off the ring's steps                  *)
C26_Witness ==
  /\ ui.screen = "game"
  /\ lastCall.op \in {"selectCell", "subdivideClick"}
  /\ gs.subdivisionIndex >= 2
  /\ ui.continuousPsi % psiIncrement(gs) # 0
  /\ gs.currentPsiDeg # 0

(***************************************************************************)
(* The colour of a cell: drawCells of the two discs reads the GameState    *)
(* after every handler and in every frame of the fade loop                 *)
(***************************************************************************)
MaxDrawn == 3

(* the scores of the orientations a player visits at one level *)
DrawScores == 0..(MaxNcc + 1)

(* hasRange of drawCells *)
hasRange(s) == s.nccMin < s.nccMax

(* getCellFadeAlpha(cell) >= 0.05 at clock reading t *)
cellFadeAlphaVisible(s, cell, t) ==
  \/ IsNull(s.fadeHalfLife)
  \/ cellKey(cell) \notin DOMAIN s.cellExploredAt
  \/ ~FadedBelowThreshold(t - s.cellExploredAt[cellKey(cell)], Val(s.fadeHalfLife))

(* the branch of drawCells that fills the cell with nccColor(norm) *)
drawnColoured(s, cell, t) ==
  /\ ~IsNull(getBestNccForCell(s, cell))
  /\ hasRange(s)
  /\ cellFadeAlphaVisible(s, cell, t)

(* norm = (bestNcc - state.nccMin) / range lies in [0, 1] *)
normInUnitInterval(s, cell) ==
  LET bestNcc == Val(getBestNccForCell(s, cell))
      range == IF s.nccMax - s.nccMin # 0 THEN s.nccMax - s.nccMin ELSE 1
  IN /\ (bestNcc - s.nccMin) >= 0
     /\ (bestNcc - s.nccMin) <= range

InitDraw ==
  /\ \E f \in FadeChoices : gs = NewGameState(30000, 60000, 45000, f)
  /\ now = 0
  /\ lastCall = Call("new", Null, 0, 0)
  /\ threw = FALSE
  /\ ui = NoScreen
  /\ calc = NoCalc

(* updateProjection records the score of the selected orientation; the score *)
(* is a function of the orientation while the level's target is displayed,   *)
(* so an orientation visited again gets the score it had                     *)
DrawExplore ==
  \E cell \in Cells, psiDeg \in PsiValues, nccValue \in DrawScores :
    /\ IF psiKey(cell, psiDeg) \in DOMAIN gs.explored
       THEN nccValue = gs.explored[psiKey(cell, psiDeg)].ncc
       ELSE Cardinality(DOMAIN gs.explored) < MaxDrawn
    /\ gs' = explore(gs, cell, psiDeg, nccValue, now)
    /\ lastCall' = Call("explore", Some(cell), psiDeg, nccValue)
    /\ threw' = FALSE
    /\ UNCHANGED <<now, ui, calc>>

(* a frame of fadeLoop *)
DrawFadeFrame ==
  /\ ~IsNull(gs.fadeHalfLife)
  /\ gs' = refreshFadeRange(gs, now)
  /\ lastCall' = Call("refreshFadeRange", Null, 0, 0)
  /\ threw' = FALSE
  /\ UNCHANGED <<now, ui, calc>>

DrawTick ==
  \E d \in 1..MaxTime :
    /\ now + d <= MaxTime
    /\ now' = now + d
    /\ lastCall' = Call("tick", Null, 0, 0)
    /\ UNCHANGED <<gs, threw, ui, calc>>

NextDraw == DrawExplore \/ DrawFadeFrame \/ DrawTick

SpecDraw == InitDraw /\ [][NextDraw]_vars

(* C27: in every reachable state, with memory fade disabled or enabled, every  *)
(* cell that is drawn coloured (best score not null, nccMin < nccMax, fade     *)
(* alpha >= 0.05) has its best score within [nccMin, nccMax], so the colour    *)
(* value (best - nccMin)/(nccMax - nccMin) lies in [0, 1]                      *)
C27_ColouredCellInRange ==
  \A cell \in Cells : drawnColoured(gs, cell, now) => normInUnitInterval(gs, cell)

(***************************************************************************)
(* The game screen when the browser runs every requested animation frame   *)
(***************************************************************************)
(* a level without memory fade: the projection update is the only callback *)
InitFrames ==
  /\ InitUI
  /\ IsNull(ui.level.fadeHalfLife)

(* the handlers that select or schedule, and the frame *)
NextFrames ==
  \/ Setup
  \/ DiscSelect
  \/ PsiSelect
  \/ SubdivideClick
  \/ ProjectionFrame

SpecFrames ==
  /\ InitFrames
  /\ [][NextFrames]_vars
  /\ WF_vars(ProjectionFrame)

(* the selected cell and psi have an exploration record at the current level *)
SelectionRecorded ==
  /\ ~IsNull(gs.currentCell)
  /\ psiKey(Val(gs.currentCell), gs.currentPsiDeg) \in DOMAIN gs.explored
  /\ gs.explored[psiKey(Val(gs.currentCell), gs.currentPsiDeg)].rot = Val(gs.currentCell).rot
  /\ gs.explored[psiKey(Val(gs.currentCell), gs.currentPsiDeg)].tilt = Val(gs.currentCell).tilt

(* C28: when every requested animation frame eventually fires, every cell or    *)
(* psi selection is followed by a run of updateProjection that records the cell *)
(* and psi selected when it runs, and a selection with no update pending has    *)
(* its record at the current level, also when selections were coalesced         *)
C28_SelectionEventuallyRecorded ==
  /\ (ui.projectionRafId # 0) ~> (lastCall.op = "projectionFrame" /\ SelectionRecorded)
  /\ [](lastCall.op = "projectionFrame" => SelectionRecorded)
  /\ []((ui.projectionRafId = 0 /\ ~IsNull(gs.currentCell)) => SelectionRecorded)

(* one frame has served the initial selection and a selection of the player *)
C28_Witness ==
  /\ lastCall.op = "projectionFrame"
  /\ ui.servedRequests >= 2
  /\ ui.inputs >= 1
  /\ SelectionRecorded
  /\ Cardinality(DOMAIN gs.explored) = 1
(***************************************************************************)
(* The leaderboard entry of one user at one level: submitScore reads the   *)
(* document and writes it in two requests, and several calls (a second     *)
(* score screen, a second tab of the same browser) can be in flight        *)
(***************************************************************************)
MaxPending == 2
MaxSubmits == 3

(* the names typed into the name field *)
PlayerNames == { <<"A", "n", "n">>, <<"B", "o">> }

(* result.resolutionAngstrom in 1/10000 Angstrom *)
SubmitResolutions == {29996, 30004, 45000}

(* Math.round(resolution * 1000) / 1000, in 1/1000 Angstrom *)
roundTo3Decimals(resolution) == (resolution + 5) \div 10

(* name.slice(0, 8) *)
slice8(name) == SubSeq(name, 1, IF Len(name) < 8 THEN Len(name) ELSE 8)

(* the document scores/{level}/entries/{uid}; exists() is false for NoDoc *)
NoDoc == [exists |-> FALSE, name |-> <<>>, resolution |-> 0, timestamp |-> 0]

ScoreDoc(name, resolution, timestamp) ==
  [exists |-> TRUE, name |-> name, resolution |-> resolution, timestamp |-> timestamp]

(* a call of submitScore: where it waits, its arguments after rounding, and *)
(* the document it is about to write                                        *)
IdleCall == [pc |-> "idle", name |-> <<>>, resolution |-> 0, writeName |-> <<>>, writeResolution |-> 0]

(* submitScore from the rounding to the first await *)
submitScoreStart(name, resolution) ==
  [pc |-> "getDoc", name |-> name, resolution |-> roundTo3Decimals(resolution),
   writeName |-> <<>>, writeResolution |-> 0]

(* submitScore from the answer of getDoc to the next await or the return *)
submitScoreAfterRead(c, existing) ==
  IF existing.exists
  THEN IF c.resolution >= existing.resolution
       THEN IF existing.name # c.name
            THEN [c EXCEPT !.pc = "setDocName", !.writeName = c.name,
                           !.writeResolution = existing.resolution]
            ELSE [c EXCEPT !.pc = "idle"]
       ELSE [c EXCEPT !.pc = "setDoc", !.writeName = c.name, !.writeResolution = c.resolution]
  ELSE [c EXCEPT !.pc = "setDoc", !.writeName = c.name, !.writeResolution = c.resolution]

InitSubmit ==
  /\ gs = NewGameState(0, 0, 0, Null)
  /\ now = 0
  /\ lastCall = Call("new", Null, 0, 0)
  /\ threw = FALSE
  /\ ui = NoScreen
  /\ \E signedIn \in BOOLEAN :
       calc = [fn |-> "submitScore",
               uid |-> signedIn,
               doc |-> NoDoc,
               commits |-> 0,
               calls |-> [i \in 1..MaxPending |-> IdleCall],
               started |-> 0,
               submitted |-> {},
               playerName |-> <<>>]

(* a click on Submit of a score screen: submitScore up to await getDoc(ref) *)
SubmitScoreCall ==
  \E i \in 1..MaxPending, name \in PlayerNames, resolution \in SubmitResolutions :
    /\ calc.fn = "submitScore"
    /\ calc.calls[i].pc = "idle"
    /\ calc.started < MaxSubmits
    /\ IF ~calc.uid
       THEN /\ threw' = TRUE
            /\ calc' = [calc EXCEPT !.started = @ + 1]
       ELSE /\ threw' = FALSE
            /\ calc' = [calc EXCEPT !.calls[i] = submitScoreStart(name, resolution),
                                    !.started = @ + 1,
                                    !.submitted = @ \cup {roundTo3Decimals(resolution)}]
    /\ lastCall' = Call("submitScore", Null, 0, 0)
    /\ UNCHANGED <<gs, now, ui>>

(* the server answers getDoc with the document as it is now *)
GetDocResolves ==
  \E i \in 1..MaxPending :
    /\ calc.fn = "submitScore"
    /\ calc.calls[i].pc = "getDoc"
    /\ calc' = [calc EXCEPT !.calls[i] = submitScoreAfterRead(calc.calls[i], calc.doc)]
    /\ lastCall' = Call("getDoc", Null, 0, 0)
    /\ UNCHANGED <<gs, now, threw, ui>>

(* the server commits setDoc(ref, { name, resolution, timestamp }); the call *)
(* that wrote its own resolution goes on to setPlayerName(name)              *)
SetDocResolves ==
  \E i \in 1..MaxPending :
    /\ calc.fn = "submitScore"
    /\ calc.calls[i].pc \in {"setDoc", "setDocName"}
    /\ calc' = [calc EXCEPT
                  !.doc = ScoreDoc(calc.calls[i].writeName, calc.calls[i].writeResolution,
                                   calc.commits + 1),
                  !.commits = @ + 1,
                  !.playerName = IF calc.calls[i].pc = "setDoc"
                                 THEN slice8(calc.calls[i].name) ELSE @,
                  !.calls[i] = [calc.calls[i] EXCEPT !.pc = "idle"]]
    /\ lastCall' = Call("setDoc", Null, 0, 0)
    /\ UNCHANGED <<gs, now, threw, ui>>

NextSubmit == SubmitScoreCall \/ GetDocResolves \/ SetDocResolves

SpecSubmit == InitSubmit /\ [][NextSubmit]_vars

(* no call of submitScore is in flight *)
SubmitQuiescent == \A i \in 1..MaxPending : calc.calls[i].pc = "idle"

(* C29: for a fixed level and user the stored resolution never increases over  *)
(* any sequence of submitScore calls, also when the read of one call and the   *)
(* write of another interleave; once the calls have returned the stored value  *)
(* is the minimum of the submitted resolutions rounded to 3 decimals, and a    *)
(* worse-or-equal submission changes at most the stored name                   *)
C29_StoredResolutionNeverIncreases ==
  /\ [][calc.doc.exists =>
          /\ calc'.doc.exists
          /\ calc'.doc.resolution <= calc.doc.resolution]_vars
  /\ []((SubmitQuiescent /\ calc.submitted # {}) =>
          /\ calc.doc.exists
          /\ calc.doc.resolution = SetMin(calc.submitted, 0))
(***************************************************************************)
(* The leaderboard screen: one tab per campaign level, and a request of    *)
(* getLeaderboard for every tab the player opens                           *)
(***************************************************************************)
MaxRequests == 3

(* campaignLevels[i].name *)
LevelNames ==
  << <<"A", "p", "o", "f", "e", "r", "r", "i", "t", "i", "n">>,
     <<"G", "r", "o", "E", "L">>,
     <<"b", "e", "t", "a", "-", "g", "a", "l", "a", "c", "t", "o", "s", "i", "d", "a", "s", "e">>,
     <<"8", "0", "S", " ", "R", "i", "b", "o", "s", "o", "m", "e">>,
     <<"T", "R", "P", "V", "3">> >>

LowerChar(c) ==
  CASE c = "A" -> "a" [] c = "E" -> "e" [] c = "G" -> "g" [] c = "L" -> "l"
    [] c = "P" -> "p" [] c = "R" -> "r" [] c = "S" -> "s" [] c = "T" -> "t"
    [] c = "V" -> "v" [] OTHER -> c

toLowerCase(s) == [i \in 1..Len(s) |-> LowerChar(s[i])]

(* replace(/\s+/g, '-'): every run of white space becomes one '-' *)
RECURSIVE replaceWhitespace(_)
replaceWhitespace(s) ==
  IF s = <<>> THEN <<>>
  ELSE IF Head(s) = " "
       THEN IF Len(s) > 1 /\ s[2] = " " THEN replaceWhitespace(Tail(s))
            ELSE <<"-">> \o replaceWhitespace(Tail(s))
       ELSE <<Head(s)>> \o replaceWhitespace(Tail(s))

(* name.toLowerCase().replace(/\s+/g, '-') *)
levelSlug(name) == replaceWhitespace(toLowerCase(name))

(* content.innerHTML: the spinner, the table rendered from the entries of a *)
(* level's collection, or the failure text                                  *)
Spinner == [kind |-> "spinner", slug |-> <<>>]
renderTable(slug) == [kind |-> "table", slug |-> slug]
FailedToLoad == [kind |-> "failed", slug |-> <<>>]

(* a request of getLeaderboard(slug) made by loadLevel(index) *)
Request(index) == [index |-> index, slug |-> levelSlug(LevelNames[index + 1]), pending |-> TRUE]

(* loadLevel(index) up to await getLeaderboard(slug) *)
loadLevel(b, index) ==
  [b EXCEPT !.activeIndex = index,
            !.highlighted = index,
            !.content = Spinner,
            !.requests = Append(@, Request(index))]

InitBoard ==
  /\ gs = NewGameState(0, 0, 0, Null)
  /\ now = 0
  /\ lastCall = Call("new", Null, 0, 0)
  /\ threw = FALSE
  /\ ui = NoScreen
  /\ calc = [fn |-> "leaderboard",
             open |-> FALSE,
             activeIndex |-> 0,
             highlighted |-> -1,
             content |-> Spinner,
             requests |-> <<>>]

(* createLeaderboardScreen: the tabs, the spinner, loadLevel(0) *)
CreateLeaderboardScreen ==
  /\ calc.fn = "leaderboard"
  /\ ~calc.open
  /\ calc' = loadLevel([calc EXCEPT !.open = TRUE], 0)
  /\ lastCall' = Call("createLeaderboardScreen", Null, 0, 0)
  /\ UNCHANGED <<gs, now, threw, ui>>

(* a click on the tab idx: nothing for the active tab *)
TabClick ==
  \E idx \in 0..(Len(LevelNames) - 1) :
    /\ calc.fn = "leaderboard"
    /\ calc.open
    /\ Len(calc.requests) < MaxRequests
    /\ calc' = IF idx # calc.activeIndex THEN loadLevel(calc, idx) ELSE calc
    /\ lastCall' = Call("tabClick", Null, idx, 0)
    /\ UNCHANGED <<gs, now, threw, ui>>

(* the answer to one of the requests in flight arrives: loadLevel after the await *)
GetLeaderboardResolves ==
  \E k \in 1..Len(calc.requests) :
    /\ calc.fn = "leaderboard"
    /\ calc.requests[k].pending
    /\ calc' = [calc EXCEPT !.requests[k].pending = FALSE,
                            !.content = renderTable(calc.requests[k].slug)]
    /\ lastCall' = Call("getLeaderboardResolves", Null, calc.requests[k].index, 0)
    /\ UNCHANGED <<gs, now, threw, ui>>

(* one of the requests in flight fails: the catch block of loadLevel *)
GetLeaderboardRejects ==
  \E k \in 1..Len(calc.requests) :
    /\ calc.fn = "leaderboard"
    /\ calc.requests[k].pending
    /\ calc' = [calc EXCEPT !.requests[k].pending = FALSE,
                            !.content = FailedToLoad]
    /\ lastCall' = Call("getLeaderboardRejects", Null, calc.requests[k].index, 0)
    /\ UNCHANGED <<gs, now, threw, ui>>

NextBoard ==
  \/ CreateLeaderboardScreen
  \/ TabClick
  \/ GetLeaderboardResolves
  \/ GetLeaderboardRejects

SpecBoard == InitBoard /\ [][NextBoard]_vars

(* no request of getLeaderboard is in flight *)
BoardQuiescent == \A k \in 1..Len(calc.requests) : ~calc.requests[k].pending

(* C30: on the leaderboard screen, once all outstanding getLeaderboard requests *)
(* have completed, the table shown is the one of the active (highlighted) tab,  *)
(* also when the tab was switched while the request of an earlier tab was in    *)
(* flight and whatever the order of the responses                               *)
C30_TableOfActiveTab ==
  (calc.open /\ BoardQuiescent /\ calc.content.kind = "table") =>
    /\ calc.highlighted = calc.activeIndex
    /\ calc.content.slug = levelSlug(LevelNames[calc.activeIndex + 1])

=============================================================================
